---- MODULE Spec2Model ----
(***************************************************************************)
(* Model of the viralboost server: the project/vote HTTP handlers, the     *)
(* user registration and ban handlers, and the WebSocket presence          *)
(* registry with the public chat and the direct messages. The revisions of *)
(* the server found in the repository are modelled side by side:           *)
(*   rev = "server"    src/server.js (MongoDB handle `db`, filled in by    *)
(*                     connectDB() after start-up, with in-memory          *)
(*                     fallback while `db` is null)                        *)
(*   rev = "server13"  src/unnamed/part_001, "server (13).js" (every       *)
(*                     collection in process memory, snapshot to           *)
(*                     data.json; the snapshot is never read back by the   *)
(*                     running process, so it is not part of the state)    *)
(*   rev = "nodb"      src/unnamed/part_001 lines 1-329, whose             *)
(*                     register-user answers no_db before validating       *)
(*   rev = "loader"    src/unnamed/part_001 lines 330-1170, whose          *)
(*                     connectDB() loads the saved chat messages into      *)
(*                     publicMessages, and whose join sends the projects   *)
(*                     from an async block                                 *)
(* A handler of src/server.js that awaits the database is split at the     *)
(* await: the synchronous part (the action named after the route), the     *)
(* database operation (Db...) and the continuation (Resume...); a rejected *)
(* database call changes nothing, so it is one step with its catch block.  *)
(***************************************************************************)
EXTENDS Integers, Sequences, FiniteSets, TLC

VARIABLES
  rev,               \* which revision of the server runs
  mongoUri,          \* MONGO_URI is configured
  db,                \* `db` handle is non-null (connectDB completed)
  inMemoryProjects,  \* inMemoryProjects / db.projects (server13): newest first
  dbProjects,        \* MongoDB collection 'projects', in insertion order
  inMemoryVotes,     \* inMemoryVotes / db.votes: projectId -> Set<userId>
  inMemoryUsers,     \* inMemoryUsers / db.users: email -> user object
  dbUsers,           \* MongoDB collection 'users': email -> document
  clock,             \* Date.now(), in ticks
  pending,           \* handlers suspended at an await
  connState,         \* per connection: "none" | "open" | "closed"
  connectedUserId,   \* per connection: the closure variable connectedUserId
  userSockets,       \* userSockets: userId -> Set<ws>
  onlineUsers,       \* onlineUsers: userId -> {id, name, plan, avatar}
  publicMessages,    \* publicMessages / db.chatMessages: oldest first
  dmThreads,         \* dmThreads: getDMKey(a, b) -> messages, oldest first
  dbChat,            \* MongoDB collection 'chat_messages', oldest first
  sent,              \* history: public messages appended since process start
  dmLog,             \* history: the direct messages accepted, in send order
  event,             \* history: the inbound event the last step handled
  out,               \* frames sent by the last step, in order
  resp,              \* the HTTP response sent by the last step, with its request
  okVotes,           \* history: <<projectId, userId>> answered ok:true
  regHist            \* history: email -> first createdAt, last body, calls

vars == <<rev, mongoUri, db, inMemoryProjects, dbProjects, inMemoryVotes,
          inMemoryUsers, dbUsers, clock, pending, connState, connectedUserId,
          userSockets, onlineUsers, publicMessages, dmThreads, dbChat, sent,
          dmLog, event, out, resp, okVotes, regHist>>

projVars == <<inMemoryProjects, dbProjects>>
userVars == <<inMemoryUsers, dbUsers, regHist>>
chatVars == <<publicMessages, dmThreads, dbChat, sent, dmLog>>
wsVars   == <<connState, connectedUserId, userSockets, onlineUsers, chatVars,
             event>>

-----------------------------------------------------------------------------
(* Bounds of the model *)

MaxPending  == 2      \* handlers suspended at an await at one time
MaxProjects == 2      \* projects held by one store
MaxConns    == 3      \* connections ever accepted
MaxClock    == 2      \* ticks of the clock
MaxMessages == 52     \* public messages sent in one long run
MaxChat     == 2      \* messages (public and direct) sent in one chat

(* Program constants *)

ProjectsCap == 200    \* inMemoryProjects.length > 200 -> pop()
MessagesCap == 200    \* publicMessages.length > 200 -> shift()
HistoryCap  == 50     \* publicMessages.slice(-50)
MaxTextLen  == 500    \* text.slice(0, 500)
LoadLimit   == 200    \* find({}).sort({timestamp: -1}).limit(200)

(* Input domains *)

NoId      == ""                  \* an absent or empty (falsy) identity
Null      == "null"              \* let connectedUserId = null
Undefined == "undefined"         \* an absent string field
ProjIds   == {"p1", "p2"}
Voters    == {"u1", "u2"}
UserIds   == {"u1", "u2"}
Emails    == {"u1", "u2"}        \* a user is identified by its email
ADMIN_KEY == "viralboost-admin"
Keys      == {ADMIN_KEY, "wrong"}
Conns     == 1..MaxConns

\* a text is the string the client typed and the number of its characters
\* that are kept, from the first on; an absent text has no string
Text(str, len) == [str |-> str, len |-> len]
NoText == Text(Undefined, 0)
Texts == {Text("hi", 2), Text("long", MaxTextLen + 1), NoText}

\* the profile fields of a join or message event (userId apart)
Ann == [name |-> "Ann", plan |-> "pro", avatar |-> "a1"]

Profiles ==
  { Ann, [name |-> Undefined, plan |-> Undefined, avatar |-> Undefined] }

\* the fields of a message or dm event whose sender adds a userId and a
\* fromId naming another user than the one the connection joined as
Forged == [name |-> "Ann", plan |-> "pro", avatar |-> "a1", userId |-> "u2",
           fromId |-> "u2"]

-----------------------------------------------------------------------------
(* JavaScript Map and Array helpers *)

EmptyMap == [k \in {} |-> 0]

MapSet(m, k, v) == [x \in (DOMAIN m) \cup {k} |-> IF x = k THEN v ELSE m[x]]

MapDelete(m, k) == [x \in (DOMAIN m) \ {k} |-> m[x]]

\* Array.prototype.findIndex(p => p.id === id), 1-based; 0 when absent
FindIndex(arr, id) ==
  IF \E i \in 1..Len(arr) : arr[i].id = id
  THEN CHOOSE i \in 1..Len(arr) :
         /\ arr[i].id = id
         /\ \A j \in 1..(i-1) : arr[j].id # id
  ELSE 0

\* Array.prototype.splice(idx, 1)
Splice(arr, idx) == SubSeq(arr, 1, idx - 1) \o SubSeq(arr, idx + 1, Len(arr))

\* Array.prototype.filter(p => p.id !== id)
RECURSIVE FilterOut(_, _)
FilterOut(arr, id) ==
  IF arr = <<>> THEN <<>>
  ELSE IF Head(arr).id = id THEN FilterOut(Tail(arr), id)
       ELSE <<Head(arr)>> \o FilterOut(Tail(arr), id)

\* unshift(proj); if (length > 200) pop()
Unshift(arr, proj) ==
  LET a == <<proj>> \o arr
  IN  IF Len(a) > ProjectsCap THEN SubSeq(a, 1, Len(a) - 1) ELSE a

\* proj.votes = (proj.votes || 0) + 1 on the element at idx
IncVotes(arr, idx) == [arr EXCEPT ![idx].votes = @ + 1]

-----------------------------------------------------------------------------
(* Frames and responses *)

Frame(type, to, id, n, users) ==
  [type |-> type, to |-> to, id |-> id, n |-> n, users |-> users,
   messages |-> <<>>]

\* wss.clients.forEach(ws => { if (ws.readyState === OPEN) ws.send(msg) })
OpenConns(cs) == {c \in Conns : cs[c] = "open"}

broadcastToAll_Accepted(cs, type, id, n, users) ==
  Frame(type, {c \in Conns : cs[c] # "none"}, id, n, users)

broadcastToAll(cs, type, id, n, users) ==
  Frame(type, OpenConns(cs), id, n, users)

sendToUser_One(cs, us, userId, type, id, n) ==
  LET open == IF userId \in DOMAIN us
              THEN {c \in us[userId] : cs[c] = "open"} ELSE {}
  IN  IF open = {} THEN <<>>
      ELSE <<Frame(type, {CHOOSE c \in open : TRUE}, id, n, {})>>

\* sockets of userId that are OPEN; nobody when the user has no socket set
sendToUser(cs, us, userId, type, id, n) ==
  IF userId \in DOMAIN us
  THEN <<Frame(type, {c \in us[userId] : cs[c] = "open"}, id, n, {})>>
  ELSE <<>>

\* res.status(status).json({ok, reason, votes}) answering request op(id, userId)
Json(op, id, userId, status, ok, reason, votes) ==
  [op |-> op, id |-> id, userId |-> userId, status |-> status, ok |-> ok,
   reason |-> reason, votes |-> votes]

\* no response was sent by the step
NoResp == Json("none", NoId, NoId, 0, "none", "", 0)

OkResp(op, id, userId)       == Json(op, id, userId, 200, "true", "", 0)
VotesResp(id, userId, n)     == Json("vote", id, userId, 200, "true", "", n)
AlreadyVoted(id, userId)     == Json("vote", id, userId, 200, "false", "already_voted", 0)
BadRequest(op, id, userId)   == Json(op, id, userId, 400, "none", "requis", 0)
Forbidden(op, id)            == Json(op, id, NoId, 403, "none", "Acces refuse", 0)

NoBody == [name |-> Undefined, username |-> Undefined, plan |-> Undefined,
           avatar |-> Undefined, projectsCount |-> 0, createdAt |-> 0]

\* a handler suspended at `await db.collection(...)...`
Await(op, id, userId, body) ==
  [op |-> op, st |-> "sent", id |-> id, userId |-> userId,
   body |-> body, found |-> FALSE, res |-> 0]

\* the model holds at most MaxPending suspended handlers, no two of them alike
CanAwait(r) == Cardinality(pending) < MaxPending /\ r \notin pending

Settle(r, found, res) == [r EXCEPT !.st = "ok", !.found = found, !.res = res]

-----------------------------------------------------------------------------
(* Start-up *)

NoConnState == [c \in Conns |-> "none"]

\* ws.on('message', raw): data.type, the socket, and data.toId or data.withId
Event(type, c, toId) == [type |-> type, conn |-> c, toId |-> toId]

NoEvent == Event("none", 0, NoId)

InitStores ==
  /\ inMemoryProjects = <<>>
  /\ dbProjects = <<>>
  /\ inMemoryVotes = EmptyMap
  /\ inMemoryUsers = EmptyMap
  /\ dbUsers = EmptyMap
  /\ clock = 1
  /\ pending = {}
  /\ connectedUserId = [c \in Conns |-> Null]
  /\ userSockets = EmptyMap
  /\ onlineUsers = EmptyMap
  /\ publicMessages = <<>>
  /\ dmThreads = EmptyMap
  /\ sent = 0
  /\ dmLog = <<>>
  /\ event = NoEvent
  /\ out = <<>>
  /\ resp = NoResp
  /\ okVotes = {}
  /\ regHist = EmptyMap

\* connectDB(): db = client.db('viralboost') once client.connect() resolves
connectDB ==
  /\ rev \in {"server", "nodb"}
  /\ mongoUri
  /\ ~db
  /\ db' = TRUE
  /\ out' = <<>>
  /\ resp' = NoResp
  /\ UNCHANGED <<rev, mongoUri, projVars, inMemoryVotes, userVars, clock,
                 pending, wsVars, okVotes>>

-----------------------------------------------------------------------------
(* Projects: publish, vote, delete  (src/server.js) *)

\* req.body of POST /api/projects: the id, and the votes and views the caller
\* puts in it (0 when it puts none)
Posted(id, seed) == [id |-> id, votes |-> seed, views |-> seed]

NewProject_Spread(body) == body

\* proj = { ...req.body, votes: 0, views: 0, createdAt, id: req.body.id || ... }
NewProject(body) == [body EXCEPT !.votes = 0, !.views = 0]

\* broadcastToAll({ type: 'new_project', project: proj })
NewProjectFrame(cs, proj) ==
  [broadcastToAll(cs, "new_project", proj.id, 0, {}) EXCEPT !.messages = <<proj>>]

\* POST /api/projects
CreateProject(body) ==
  /\ rev = "server"
  /\ IF db
     THEN /\ CanAwait(Await("create", body.id, NoId, NewProject(body)))
          /\ pending' = pending \cup
               {Await("create", body.id, NoId, NewProject(body))}
          /\ out' = <<>>
          /\ resp' = NoResp
          /\ UNCHANGED inMemoryProjects
     ELSE /\ Len(inMemoryProjects) < MaxProjects
          /\ inMemoryProjects' = Unshift(inMemoryProjects, NewProject(body))
          /\ out' = <<NewProjectFrame(connState, NewProject(body))>>
          /\ resp' = OkResp("create", body.id, NoId)
          /\ UNCHANGED pending
  /\ UNCHANGED <<rev, mongoUri, db, dbProjects, inMemoryVotes, userVars, clock,
                 wsVars, okVotes>>

\* if (!inMemoryVotes.has(id)) inMemoryVotes.set(id, new Set())
VoterSet(votes, id) == IF id \in DOMAIN votes THEN votes[id] ELSE {}

\* inMemoryVotes.get(id).has(userId)
HasVoted(votes, id, userId) == userId \in VoterSet(votes, id)

\* mutant: inMemoryVotes.set(id, new Set([userId])), dropping earlier voters
AddVoter_Overwrite(votes, id, userId) == MapSet(votes, id, {userId})

\* inMemoryVotes.get(id).add(userId)
AddVoter(votes, id, userId) == MapSet(votes, id, VoterSet(votes, id) \cup {userId})

\* const proj = inMemoryProjects.find(...); if (proj) { proj.votes = ... + 1 }
VoteInMemory(arr, id) ==
  LET idx == FindIndex(arr, id)
  IN  IF idx = 0 THEN arr ELSE IncVotes(arr, idx)

\* mutant: newVotes read before the increment
NewVotesInMemory_Stale(arr, id) ==
  LET idx == FindIndex(arr, id)
  IN  IF idx = 0 THEN 0 ELSE arr[idx].votes

\* newVotes: 0 unless the project is found, then its counter after the increment
NewVotesInMemory(arr, id) ==
  LET idx == FindIndex(arr, id)
  IN  IF idx = 0 THEN 0 ELSE arr[idx].votes + 1

\* POST /api/projects/:id/vote
VoteProject(id, userId) ==
  /\ rev = "server"
  /\ IF userId = NoId
     THEN /\ resp' = BadRequest("vote", id, userId)
          /\ out' = <<>>
          /\ UNCHANGED <<inMemoryVotes, inMemoryProjects, pending, okVotes>>
     ELSE IF HasVoted(inMemoryVotes, id, userId)
     THEN /\ resp' = AlreadyVoted(id, userId)
          /\ out' = <<>>
          /\ inMemoryVotes' = MapSet(inMemoryVotes, id, VoterSet(inMemoryVotes, id))
          /\ UNCHANGED <<inMemoryProjects, pending, okVotes>>
     ELSE IF db
     THEN /\ CanAwait(Await("vote", id, userId, NoBody))
          /\ inMemoryVotes' = AddVoter(inMemoryVotes, id, userId)
          /\ pending' = pending \cup {Await("vote", id, userId, NoBody)}
          /\ resp' = NoResp
          /\ out' = <<>>
          /\ UNCHANGED <<inMemoryProjects, okVotes>>
     ELSE /\ inMemoryVotes' = AddVoter(inMemoryVotes, id, userId)
          /\ inMemoryProjects' = VoteInMemory(inMemoryProjects, id)
          /\ out' = <<broadcastToAll(connState, "vote_update", id,
                                     NewVotesInMemory(inMemoryProjects, id), {})>>
          /\ resp' = VotesResp(id, userId, NewVotesInMemory(inMemoryProjects, id))
          /\ okVotes' = okVotes \cup {<<id, userId>>}
          /\ UNCHANGED pending
  /\ UNCHANGED <<rev, mongoUri, db, dbProjects, userVars, clock, wsVars>>

\* keys a caller may present: the secret, another string, the secret in
\* another case, no key at all
AdminKeys == Keys \cup {"Viralboost-Admin", Undefined}

Denied_AnyCase(key) == key \notin {ADMIN_KEY, "Viralboost-Admin"}

\* if (req.body.key !== ADMIN_KEY) return res.status(403)...
Denied(key) == key # ADMIN_KEY

\* DELETE /api/projects/:id
DeleteProject(id, key) ==
  /\ rev = "server"
  /\ IF Denied(key)
     THEN /\ resp' = Forbidden("delete", id)
          /\ out' = <<>>
          /\ UNCHANGED <<inMemoryProjects, pending>>
     ELSE IF db
     THEN /\ CanAwait(Await("delete", id, NoId, NoBody))
          /\ pending' = pending \cup {Await("delete", id, NoId, NoBody)}
          /\ resp' = NoResp
          /\ out' = <<>>
          /\ UNCHANGED inMemoryProjects
     ELSE \* const idx = findIndex(...); if (idx !== -1) splice(idx, 1)
          /\ inMemoryProjects' =
               (IF FindIndex(inMemoryProjects, id) # 0
                THEN Splice(inMemoryProjects, FindIndex(inMemoryProjects, id))
                ELSE inMemoryProjects)
          /\ out' = <<broadcastToAll(connState, "project_deleted", id, 0, {})>>
          /\ resp' = OkResp("delete", id, NoId)
          /\ UNCHANGED pending
  /\ UNCHANGED <<rev, mongoUri, db, dbProjects, inMemoryVotes, userVars, clock,
                 wsVars, okVotes>>

-----------------------------------------------------------------------------
(* The database side of an awaited call, and the handler's continuation *)

DbStep ==
  /\ out' = <<>>
  /\ resp' = NoResp
  /\ UNCHANGED <<rev, mongoUri, db, inMemoryProjects, inMemoryVotes,
                 inMemoryUsers, regHist, clock, wsVars, okVotes>>

\* db.collection('projects').insertOne(proj)
DbInsertProject(r) ==
  /\ r.op = "create" /\ r.st = "sent"
  /\ Len(dbProjects) < MaxProjects
  /\ dbProjects' = Append(dbProjects, r.body)
  /\ pending' = (pending \ {r}) \cup {Settle(r, TRUE, 0)}
  /\ DbStep
  /\ UNCHANGED dbUsers

\* findOneAndUpdate({id}, {$inc: {votes: 1}}, {returnDocument: 'after'}):
\* the votes of the document after the update, 0 standing for null (no match)
DbIncVotes(r) ==
  LET idx == FindIndex(dbProjects, r.id)
  IN  /\ r.op = "vote" /\ r.st = "sent"
      /\ dbProjects' = (IF idx = 0 THEN dbProjects ELSE IncVotes(dbProjects, idx))
      /\ pending' = (pending \ {r}) \cup
                      {Settle(r, idx # 0,
                              IF idx = 0 THEN 0
                              ELSE dbProjects[idx].votes + 1)}
      /\ DbStep
      /\ UNCHANGED dbUsers

\* db.collection('projects').deleteOne({id})
DbDeleteProject(r) ==
  LET idx == FindIndex(dbProjects, r.id)
  IN  /\ r.op = "delete" /\ r.st = "sent"
      /\ dbProjects' = (IF idx = 0 THEN dbProjects ELSE Splice(dbProjects, idx))
      /\ pending' = (pending \ {r}) \cup {Settle(r, idx # 0, 0)}
      /\ DbStep
      /\ UNCHANGED dbUsers

Resumed(r) ==
  /\ pending' = pending \ {r}
  /\ UNCHANGED <<rev, mongoUri, db, projVars, inMemoryVotes, userVars, clock,
                 wsVars>>

\* the awaited call rejects: catch(err) { res.status(500).json(...) }
Rejected(r) ==
  /\ r.st = "sent"
  /\ out' = <<>>
  /\ resp' = Json(r.op, r.id, r.userId, 500, "none", "err.message", 0)
  /\ Resumed(r)
  /\ UNCHANGED okVotes

\* POST /api/projects after the await
ResumeCreate(r) ==
  /\ r.op = "create" /\ r.st = "ok"
  /\ out' = <<NewProjectFrame(connState, r.body)>>
  /\ resp' = OkResp("create", r.id, NoId)
  /\ Resumed(r)
  /\ UNCHANGED okVotes

\* newVotes = result?.votes || 1
NewVotesDb(found, res) == IF found /\ res # 0 THEN res ELSE 1

\* POST /api/projects/:id/vote after the await
ResumeVote(r) ==
  /\ r.op = "vote" /\ r.st = "ok"
  /\ out' = <<broadcastToAll(connState, "vote_update", r.id,
                             NewVotesDb(r.found, r.res), {})>>
  /\ resp' = VotesResp(r.id, r.userId, NewVotesDb(r.found, r.res))
  /\ okVotes' = okVotes \cup {<<r.id, r.userId>>}
  /\ Resumed(r)

\* DELETE /api/projects/:id after the await
ResumeDelete(r) ==
  /\ r.op = "delete" /\ r.st = "ok"
  /\ out' = <<broadcastToAll(connState, "project_deleted", r.id, 0, {})>>
  /\ resp' = OkResp("delete", r.id, NoId)
  /\ Resumed(r)
  /\ UNCHANGED okVotes

-----------------------------------------------------------------------------
(* Projects: publish, vote, delete  (server (13).js, all synchronous) *)

\* POST /api/projects
CreateProject13(body) ==
  /\ rev = "server13"
  /\ Len(inMemoryProjects) < MaxProjects
  /\ inMemoryProjects' = Unshift(inMemoryProjects, NewProject(body))
  /\ out' = <<NewProjectFrame(connState, NewProject(body))>>
  /\ resp' = OkResp("create", body.id, NoId)
  /\ UNCHANGED <<rev, mongoUri, db, dbProjects, inMemoryVotes, userVars, clock,
                 pending, wsVars, okVotes>>

\* votes: proj?.votes || 1
NewVotes13(arr, id) ==
  LET idx == FindIndex(arr, id)
  IN  IF idx = 0 THEN 1 ELSE arr[idx].votes + 1

\* POST /api/projects/:id/vote
VoteProject13(id, userId) ==
  /\ rev = "server13"
  /\ IF userId = NoId
     THEN /\ resp' = BadRequest("vote", id, userId)
          /\ out' = <<>>
          /\ UNCHANGED <<inMemoryVotes, inMemoryProjects, okVotes>>
     ELSE IF HasVoted(inMemoryVotes, id, userId)
     THEN /\ resp' = AlreadyVoted(id, userId)
          /\ out' = <<>>
          /\ inMemoryVotes' = MapSet(inMemoryVotes, id, VoterSet(inMemoryVotes, id))
          /\ UNCHANGED <<inMemoryProjects, okVotes>>
     ELSE /\ inMemoryVotes' = AddVoter(inMemoryVotes, id, userId)
          /\ inMemoryProjects' = VoteInMemory(inMemoryProjects, id)
          /\ out' = <<broadcastToAll(connState, "vote_update", id,
                                     NewVotes13(inMemoryProjects, id), {})>>
          /\ resp' = VotesResp(id, userId, NewVotes13(inMemoryProjects, id))
          /\ okVotes' = okVotes \cup {<<id, userId>>}
  /\ UNCHANGED <<rev, mongoUri, db, dbProjects, userVars, clock, pending, wsVars>>

\* DELETE /api/projects/:id
DeleteProject13(id, key) ==
  /\ rev = "server13"
  /\ IF Denied(key)
     THEN /\ resp' = Forbidden("delete", id)
          /\ out' = <<>>
          /\ UNCHANGED inMemoryProjects
     ELSE /\ inMemoryProjects' = FilterOut(inMemoryProjects, id)
          /\ out' = <<broadcastToAll(connState, "project_deleted", id, 0, {})>>
          /\ resp' = OkResp("delete", id, NoId)
  /\ UNCHANGED <<rev, mongoUri, db, dbProjects, inMemoryVotes, userVars, clock,
                 pending, wsVars, okVotes>>

-----------------------------------------------------------------------------
(* Users: registration and ban *)

\* request bodies of POST /api/register-user (email apart); createdAt 0 and
\* projectsCount 0 stand for an absent field. Each body also carries
\* banned: false, a field the handlers do not read
Bodies ==
  { [name |-> "Ann", username |-> "ann", plan |-> "pro", avatar |-> "a1",
     projectsCount |-> 3, createdAt |-> 0, banned |-> FALSE],
    [name |-> "Bob", username |-> Undefined, plan |-> Undefined,
     avatar |-> Undefined, projectsCount |-> 0, createdAt |-> 9,
     banned |-> FALSE] }

\* x || d
OrElse(x, d) == IF x = Undefined THEN d ELSE x

\* createdAt || new Date()
OrNow(t) == IF t = 0 THEN clock ELSE t

NewUser == [name |-> Undefined, username |-> Undefined, plan |-> Undefined,
            avatar |-> Undefined, projectsCount |-> 0, createdAt |-> 0,
            banned |-> FALSE]

\* inMemoryUsers.get(email) || {}
Existing(users, email) == IF email \in DOMAIN users THEN users[email] ELSE NewUser

MergeUser_Spread(existing, body) ==
  [existing EXCEPT !.name = body.name, !.username = body.username,
                   !.plan = OrElse(body.plan, "free"), !.avatar = body.avatar,
                   !.projectsCount = body.projectsCount,
                   !.createdAt = OrNow(existing.createdAt),
                   !.banned = body.banned]

\* userObj = { name, email, username, plan: plan || 'free', avatar,
\*             projectsCount: projectsCount || 0, updatedAt }
\* { ...existing, ...userObj, createdAt: existing.createdAt || new Date() }
MergeUser(existing, body) ==
  [existing EXCEPT !.name = body.name, !.username = body.username,
                   !.plan = OrElse(body.plan, "free"), !.avatar = body.avatar,
                   !.projectsCount = body.projectsCount,
                   !.createdAt = OrNow(existing.createdAt)]

\* updateOne({email}, {$set: userObj, $setOnInsert: {createdAt}}, {upsert: true});
\* body.createdAt holds createdAt || new Date() as evaluated by the handler
UpsertUser(existing, body) ==
  [existing EXCEPT !.name = body.name, !.username = body.username,
                   !.plan = OrElse(body.plan, "free"), !.avatar = body.avatar,
                   !.projectsCount = body.projectsCount,
                   !.createdAt = IF @ = 0 THEN body.createdAt ELSE @]

\* history of the registrations of email, after one that stored record rec
Registered(email, rec, body) ==
  MapSet(regHist, email,
         IF email \in DOMAIN regHist
         THEN [regHist[email] EXCEPT !.last = body, !.n = 2]
         ELSE [first |-> rec.createdAt, last |-> body, n |-> 1])

\* POST /api/register-user  (src/server.js)
RegisterUser(email, body) ==
  /\ rev = "server"
  /\ IF email = NoId
     THEN /\ resp' = BadRequest("register", email, NoId)
          /\ UNCHANGED <<inMemoryUsers, regHist, pending>>
     ELSE IF db
     THEN /\ CanAwait(Await("register", email, NoId,
                            [body EXCEPT !.createdAt = OrNow(@)]))
          /\ pending' = pending \cup
               {Await("register", email, NoId, [body EXCEPT !.createdAt = OrNow(@)])}
          /\ resp' = NoResp
          /\ UNCHANGED <<inMemoryUsers, regHist>>
     ELSE /\ inMemoryUsers' =
               MapSet(inMemoryUsers, email,
                      MergeUser(Existing(inMemoryUsers, email), body))
          /\ regHist' = Registered(email, inMemoryUsers'[email], body)
          /\ resp' = OkResp("register", email, NoId)
          /\ UNCHANGED pending
  /\ out' = <<>>
  /\ UNCHANGED <<rev, mongoUri, db, projVars, inMemoryVotes, dbUsers, clock,
                 wsVars, okVotes>>

DbUserStep ==
  /\ out' = <<>>
  /\ resp' = NoResp
  /\ UNCHANGED <<rev, mongoUri, db, projVars, inMemoryVotes, inMemoryUsers,
                 clock, wsVars, okVotes>>

\* db.collection('users').updateOne(..., {upsert: true})
DbUpsertUser(r) ==
  /\ r.op = "register" /\ r.st = "sent"
  /\ dbUsers' = MapSet(dbUsers, r.id, UpsertUser(Existing(dbUsers, r.id), r.body))
  /\ regHist' = Registered(r.id, dbUsers'[r.id], r.body)
  /\ pending' = (pending \ {r}) \cup {Settle(r, TRUE, 0)}
  /\ DbUserStep

\* POST /api/register-user after the await
ResumeRegister(r) ==
  /\ r.op \in {"register", "register0"} /\ r.st = "ok"
  /\ out' = <<>>
  /\ resp' = OkResp("register", r.id, NoId)
  /\ Resumed(r)
  /\ UNCHANGED okVotes

\* { ...existing, name, email, username, plan: plan || 'free', avatar,
\*   projectsCount: existing.projectsCount || 0,
\*   createdAt: existing.createdAt || createdAt || new Date().toISOString() }
MergeUser13(existing, body) ==
  [existing EXCEPT !.name = body.name, !.username = body.username,
                   !.plan = OrElse(body.plan, "free"), !.avatar = body.avatar,
                   !.projectsCount = existing.projectsCount,
                   !.createdAt = IF @ # 0 THEN @ ELSE OrNow(body.createdAt)]

\* POST /api/register-user  (server (13).js)
RegisterUser13(email, body) ==
  /\ rev = "server13"
  /\ IF email = NoId
     THEN /\ resp' = BadRequest("register", email, NoId)
          /\ UNCHANGED <<inMemoryUsers, regHist>>
     ELSE /\ inMemoryUsers' =
               MapSet(inMemoryUsers, email,
                      MergeUser13(Existing(inMemoryUsers, email), body))
          /\ regHist' = Registered(email, inMemoryUsers'[email], body)
          /\ resp' = OkResp("register", email, NoId)
  /\ out' = <<>>
  /\ UNCHANGED <<rev, mongoUri, db, projVars, inMemoryVotes, dbUsers, clock,
                 pending, wsVars, okVotes>>

\* {$set: {name, email, plan, projectsCount, updatedAt}, $setOnInsert: {createdAt}}
UpsertUserNoDb(existing, body) ==
  [existing EXCEPT !.name = body.name, !.plan = body.plan,
                   !.projectsCount = body.projectsCount,
                   !.createdAt = IF @ = 0 THEN body.createdAt ELSE @]

\* POST /api/register-user  (the revision without in-memory fallback):
\* if (!db) return res.json({ok: false, reason: 'no_db'}) comes first
RegisterUserNoDb(email, body) ==
  /\ rev = "nodb"
  /\ IF ~db
     THEN /\ resp' = Json("register", email, NoId, 200, "false", "no_db", 0)
          /\ UNCHANGED pending
     ELSE IF email = NoId
     THEN /\ resp' = BadRequest("register", email, NoId)
          /\ UNCHANGED pending
     ELSE /\ CanAwait(Await("register0", email, NoId,
                            [body EXCEPT !.createdAt = OrNow(@)]))
          /\ pending' = pending \cup
               {Await("register0", email, NoId, [body EXCEPT !.createdAt = OrNow(@)])}
          /\ resp' = NoResp
  /\ out' = <<>>
  /\ UNCHANGED <<rev, mongoUri, db, projVars, inMemoryVotes, userVars, clock,
                 wsVars, okVotes>>

DbUpsertUserNoDb(r) ==
  /\ r.op = "register0" /\ r.st = "sent"
  /\ dbUsers' = MapSet(dbUsers, r.id, UpsertUserNoDb(Existing(dbUsers, r.id), r.body))
  /\ regHist' = Registered(r.id, dbUsers'[r.id], r.body)
  /\ pending' = (pending \ {r}) \cup {Settle(r, TRUE, 0)}
  /\ DbUserStep

\* const u = inMemoryUsers.get(email); if (u) u.banned = true
BanInMemory(users, email) ==
  IF email \in DOMAIN users THEN [users EXCEPT ![email].banned = TRUE] ELSE users

\* POST /api/admin/ban  (src/server.js)
BanUser(email, key) ==
  /\ rev = "server"
  /\ IF Denied(key)
     THEN /\ resp' = Forbidden("ban", email)
          /\ out' = <<>>
          /\ UNCHANGED <<inMemoryUsers, pending>>
     ELSE IF db
     THEN /\ CanAwait(Await("ban", email, NoId, NoBody))
          /\ pending' = pending \cup {Await("ban", email, NoId, NoBody)}
          /\ resp' = NoResp
          /\ out' = <<>>
          /\ UNCHANGED inMemoryUsers
     ELSE /\ inMemoryUsers' = BanInMemory(inMemoryUsers, email)
          /\ out' = sendToUser(connState, userSockets, email, "banned", email, 0)
          /\ resp' = OkResp("ban", email, NoId)
          /\ UNCHANGED pending
  /\ UNCHANGED <<rev, mongoUri, db, projVars, inMemoryVotes, dbUsers, regHist, clock,
                 wsVars, okVotes>>

\* updateOne({email}, {$set: {banned: true, bannedAt}}): no upsert
DbBanUser(r) ==
  /\ r.op = "ban" /\ r.st = "sent"
  /\ dbUsers' = BanInMemory(dbUsers, r.id)
  /\ pending' = (pending \ {r}) \cup {Settle(r, r.id \in DOMAIN dbUsers, 0)}
  /\ DbUserStep
  /\ UNCHANGED regHist

\* POST /api/admin/ban after the await
ResumeBan(r) ==
  /\ r.op = "ban" /\ r.st = "ok"
  /\ out' = sendToUser(connState, userSockets, r.id, "banned", r.id, 0)
  /\ resp' = OkResp("ban", r.id, NoId)
  /\ Resumed(r)
  /\ UNCHANGED okVotes

\* POST /api/admin/ban  (server (13).js)
BanUser13(email, key) ==
  /\ rev = "server13"
  /\ IF Denied(key)
     THEN /\ resp' = Forbidden("ban", email)
          /\ out' = <<>>
          /\ UNCHANGED inMemoryUsers
     ELSE /\ inMemoryUsers' = BanInMemory(inMemoryUsers, email)
          /\ out' = sendToUser(connState, userSockets, email, "banned", email, 0)
          /\ resp' = OkResp("ban", email, NoId)
  /\ UNCHANGED <<rev, mongoUri, db, projVars, inMemoryVotes, dbUsers, regHist, clock,
                 pending, wsVars, okVotes>>

\* res.json(users): the answer carries the records, counted in n
Listing(n) == Json("all-users", NoId, NoId, 200, "none", "", n)

\* GET /api/admin/all-users  (src/server.js)
AllUsers(key) ==
  /\ rev = "server"
  /\ IF Denied(key)
     THEN /\ resp' = Forbidden("all-users", NoId)
          /\ UNCHANGED pending
     ELSE IF db
     THEN /\ CanAwait(Await("all-users", NoId, NoId, NoBody))
          /\ pending' = pending \cup {Await("all-users", NoId, NoId, NoBody)}
          /\ resp' = NoResp
     ELSE /\ resp' = Listing(Cardinality(DOMAIN inMemoryUsers))
          /\ UNCHANGED pending
  /\ out' = <<>>
  /\ UNCHANGED <<rev, mongoUri, db, projVars, inMemoryVotes, userVars, clock,
                 wsVars, okVotes>>

\* db.collection('users').find({}).sort({createdAt: -1}).toArray()
DbFindUsers(r) ==
  /\ r.op = "all-users" /\ r.st = "sent"
  /\ pending' = (pending \ {r}) \cup {Settle(r, TRUE, Cardinality(DOMAIN dbUsers))}
  /\ DbUserStep
  /\ UNCHANGED <<dbUsers, regHist>>

\* GET /api/admin/all-users after the await
ResumeAllUsers(r) ==
  /\ r.op = "all-users" /\ r.st = "ok"
  /\ out' = <<>>
  /\ resp' = Listing(r.res)
  /\ Resumed(r)
  /\ UNCHANGED okVotes

\* GET /api/admin/all-users  (server (13).js)
AllUsers13(key) ==
  /\ rev = "server13"
  /\ resp' = IF Denied(key) THEN Forbidden("all-users", NoId)
             ELSE Listing(Cardinality(DOMAIN inMemoryUsers))
  /\ out' = <<>>
  /\ UNCHANGED <<rev, mongoUri, db, projVars, inMemoryVotes, userVars, clock,
                 pending, wsVars, okVotes>>

\* time passes between two requests
Tick ==
  /\ clock < MaxClock
  /\ clock' = clock + 1
  /\ out' = <<>>
  /\ resp' = NoResp
  /\ UNCHANGED <<rev, mongoUri, db, projVars, inMemoryVotes, userVars, pending,
                 wsVars, okVotes>>

-----------------------------------------------------------------------------
(* WebSocket connections: connection, join, message, close *)

Truthy_NotEmpty(userId) == userId # NoId

\* if (connectedUserId): null, undefined and '' are falsy
Truthy(userId) == userId \notin {NoId, Null, Undefined}

Presence_NoDefaults(userId, p) ==
  [id |-> userId, name |-> p.name, plan |-> p.plan, avatar |-> p.avatar]

\* { id, name: name || 'Anonyme', plan: plan || 'free', avatar: avatar || (bust) }
Presence(userId, p) ==
  [id |-> userId, name |-> OrElse(p.name, "Anonyme"), plan |-> OrElse(p.plan, "free"),
   avatar |-> OrElse(p.avatar, "bust")]

\* Array.from(onlineUsers.values())
Roster(online) == {online[u] : u \in DOMAIN online}

\* Array.prototype.slice(-n)
LastN_Oldest(arr, n) ==
  IF Len(arr) > n THEN SubSeq(arr, 1, n) ELSE arr

\* Array.prototype.slice(-n)
LastN(arr, n) ==
  IF Len(arr) > n THEN SubSeq(arr, Len(arr) - n + 1, Len(arr)) ELSE arr

\* Array.prototype.slice(0, n)
FirstN(arr, n) == IF Len(arr) > n THEN SubSeq(arr, 1, n) ELSE arr

History_ToAll(c, msgs) ==
  [Frame("history", Conns, NoId, Len(LastN(msgs, HistoryCap)), {})
     EXCEPT !.messages = LastN(msgs, HistoryCap)]

\* ws.send({type: 'history', messages: publicMessages.slice(-50)})
History(c, msgs) ==
  [Frame("history", {c}, NoId, Len(LastN(msgs, HistoryCap)), {})
     EXCEPT !.messages = LastN(msgs, HistoryCap)]

\* the values Math.random() can add to Date.now(), in units of the spacing
\* of the doubles around Date.now(): the sum is one of finitely many doubles
\* of the tick (two of them here)
Fractions == 2

Randoms == 0..(Fractions - 1)

\* id: Date.now() + Math.random()           (src/server.js)
\* id: 'msg_' + Date.now(), 'dm_' + Date.now()   (server (13).js)
NewId(prefix, random) ==
  IF rev = "server13"
  THEN [prefix |-> prefix, value |-> clock]
  ELSE [prefix |-> "", value |-> clock * Fractions + random]

\* a handler of the ws server runs: the frames it sends reach their receivers
WsStep ==
  /\ resp' = NoResp
  /\ UNCHANGED <<rev, mongoUri, projVars, inMemoryVotes, userVars, clock,
                 okVotes>>

\* wss.on('connection', (ws) => { let connectedUserId = null; ... });
\* connections are numbered in the order they are accepted
Connect(c) ==
  /\ event' = Event("connection", c, NoId)
  /\ connState[c] = "none"
  /\ \A d \in Conns : d < c => connState[d] # "none"
  /\ connState' = [connState EXCEPT ![c] = "open"]
  /\ connectedUserId' = [connectedUserId EXCEPT ![c] = Null]
  /\ out' = <<>>
  /\ UNCHANGED <<userSockets, onlineUsers, chatVars, db, pending>>
  /\ WsStep

AddSocket_Toggle(us, userId, c) ==
  MapSet(us, userId,
         IF userId \in DOMAIN us
         THEN (IF c \in us[userId] THEN us[userId] \ {c}
               ELSE us[userId] \cup {c})
         ELSE {c})

\* userSockets.get(userId).add(ws), the set created when absent
AddSocket(us, userId, c) ==
  MapSet(us, userId, (IF userId \in DOMAIN us THEN us[userId] ELSE {}) \cup {c})

\* the registry and roster updates of case 'join'
Joined(c, userId, p) ==
  /\ event' = Event("join", c, NoId)
  /\ connState[c] = "open"
  /\ connectedUserId' = [connectedUserId EXCEPT ![c] = userId]
  /\ userSockets' = AddSocket(userSockets, userId, c)
  /\ onlineUsers' = MapSet(onlineUsers, userId, Presence(userId, p))
  /\ UNCHANGED <<connState, chatVars, db>>

\* case 'join'  (src/server.js)
Join(c, userId, p) ==
  /\ rev = "server"
  /\ Joined(c, userId, p)
  /\ out' = << History(c, publicMessages),
               broadcastToAll(connState, "online_users", NoId, 0,
                              Roster(onlineUsers')),
               broadcastToAll(connState, "user_joined", userId, 0,
                              {onlineUsers'[userId]}) >>
  /\ UNCHANGED pending
  /\ WsStep

\* case 'join'  (server (13).js): history, projects_history (the 50 most
\* voted), posts_history (posts are outside the model), then online_users
Join13(c, userId, p) ==
  /\ rev = "server13"
  /\ Joined(c, userId, p)
  /\ out' = << History(c, publicMessages),
               Frame("projects_history", {c}, NoId,
                     Len(FirstN(inMemoryProjects, HistoryCap)), {}),
               Frame("posts_history", {c}, NoId, 0, {}),
               broadcastToAll(connState, "online_users", NoId, 0,
                              Roster(onlineUsers')) >>
  /\ UNCHANGED pending
  /\ WsStep

\* case 'join' of the revision that loads the chat history at start-up: the
\* projects are sent from an async block, at once without a database and
\* after `await find(...).toArray()` with one
JoinLoader(c, userId, p) ==
  /\ rev = "loader"
  /\ Joined(c, userId, p)
  /\ IF db
     THEN /\ CanAwait([Await("projects", NoId, userId, NoBody) EXCEPT !.res = c])
          /\ pending' = pending \cup
               {[Await("projects", NoId, userId, NoBody) EXCEPT !.res = c]}
          /\ out' = << History(c, publicMessages),
                       broadcastToAll(connState, "online_users", NoId, 0,
                                      Roster(onlineUsers')),
                       broadcastToAll(connState, "user_joined", userId, 0,
                                      {onlineUsers'[userId]}) >>
     ELSE /\ UNCHANGED pending
          /\ out' = << History(c, publicMessages),
                       Frame("projects_history", {c}, NoId,
                             Len(inMemoryProjects), {}),
                       broadcastToAll(connState, "online_users", NoId, 0,
                                      Roster(onlineUsers')),
                       broadcastToAll(connState, "user_joined", userId, 0,
                                      {onlineUsers'[userId]}) >>
  /\ WsStep

\* the async block of the join resumes:
\* if (ws.readyState === WebSocket.OPEN) ws.send({type: 'projects_history', ...});
\* a rejected find is logged and nothing is sent
ProjectsHistory(r) ==
  /\ event' = NoEvent
  /\ r.op = "projects" /\ r.st = "sent"
  /\ pending' = pending \ {r}
  /\ \E ok \in BOOLEAN :
       out' = IF ok /\ connState[r.res] = "open"
              THEN << Frame("projects_history", {r.res}, NoId,
                            Len(FirstN(dbProjects, HistoryCap)), {}) >>
              ELSE <<>>
  /\ UNCHANGED <<connState, connectedUserId, userSockets, onlineUsers,
                 chatVars, db>>
  /\ WsStep

Slice_Whole(text) ==
  IF text.str = Undefined THEN Text("", 0) ELSE text

\* (data.text || '').slice(0, 500)
Slice(text) ==
  IF text.str = Undefined THEN Text("", 0)
  ELSE Text(text.str, IF text.len > MaxTextLen THEN MaxTextLen ELSE text.len)

Message_Claimed(c, p, text, random) ==
  /\ event' = Event("message", c, NoId)
  /\ connState[c] = "open"
  /\ IF ~Truthy(connectedUserId[c])
     THEN /\ out' = <<>>
          /\ UNCHANGED chatVars
     ELSE LET msg == [id |-> NewId("msg_", random),
                      userId |-> p.userId,
                      name |-> OrElse(p.name, "Anonyme"),
                      plan |-> OrElse(p.plan, "free"),
                      text |-> Slice(text),
                      timestamp |-> clock,
                      seq |-> sent + 1]
          IN  \* push(msg); if (length > 200) shift()
              /\ publicMessages' =
                   (IF Len(publicMessages) + 1 > MessagesCap
                    THEN Tail(Append(publicMessages, msg))
                    ELSE Append(publicMessages, msg))
              /\ sent' = sent + 1
              /\ dbChat' \in (IF db THEN {dbChat, Append(dbChat, msg)}
                                    ELSE {dbChat})
              /\ out' = << [broadcastToAll(connState, "message", msg.userId,
                                           0, {})
                              EXCEPT !.messages = <<msg>>] >>
              /\ UNCHANGED <<dmThreads, dmLog>>
  /\ UNCHANGED <<connState, connectedUserId, userSockets, onlineUsers,
                 db, pending>>
  /\ WsStep

\* case 'message': dropped unless the connection has joined. The message
\* carries its rank among the messages appended (seq, history). With a
\* database the message is also inserted into chat_messages, an insert that
\* may fail silently: .catch(()=>{})
Message(c, p, text, random) ==
  /\ event' = Event("message", c, NoId)
  /\ connState[c] = "open"
  /\ IF ~Truthy(connectedUserId[c])
     THEN /\ out' = <<>>
          /\ UNCHANGED chatVars
     ELSE LET msg == [id |-> NewId("msg_", random),
                      userId |-> connectedUserId[c],
                      name |-> OrElse(p.name, "Anonyme"),
                      plan |-> OrElse(p.plan, "free"),
                      text |-> Slice(text),
                      timestamp |-> clock,
                      seq |-> sent + 1]
          IN  \* push(msg); if (length > 200) shift()
              /\ publicMessages' =
                   (IF Len(publicMessages) + 1 > MessagesCap
                    THEN Tail(Append(publicMessages, msg))
                    ELSE Append(publicMessages, msg))
              /\ sent' = sent + 1
              /\ dbChat' \in (IF db THEN {dbChat, Append(dbChat, msg)}
                                    ELSE {dbChat})
              /\ out' = << [broadcastToAll(connState, "message", msg.userId,
                                           0, {})
                              EXCEPT !.messages = <<msg>>] >>
              /\ UNCHANGED <<dmThreads, dmLog>>
  /\ UNCHANGED <<connState, connectedUserId, userSockets, onlineUsers,
                 db, pending>>
  /\ WsStep

\* the identities in the order of Array.prototype.sort (UTF-16 code units)
SortOrder == <<NoId, "u1", "u1:u1", "u1:u2", "u2">>

Rank(x) == CHOOSE i \in 1..Len(SortOrder) : SortOrder[i] = x

\* join() writes undefined as the empty string
Joinable(x) == IF x = Undefined THEN "" ELSE x

getDMKey_Unsorted(a, b) == Joinable(a) \o ":" \o Joinable(b)

\* function getDMKey(a, b) { return [a, b].sort().join(':'); }
\* sort() moves undefined to the end
getDMKey(a, b) ==
  IF b = Undefined \/ (a # Undefined /\ Rank(a) <= Rank(b))
  THEN Joinable(a) \o ":" \o Joinable(b)
  ELSE Joinable(b) \o ":" \o Joinable(a)

Thread_Fresh(threads, key) == <<>>

\* dmThreads.get(key) || []
Thread(threads, key) == IF key \in DOMAIN threads THEN threads[key] ELSE <<>>

\* sendToUser(userId, {type, message})
sendMessageToUser(cs, us, userId, type, m) ==
  LET fs == sendToUser(cs, us, userId, type, m.fromId, 0)
  IN  [i \in DOMAIN fs |-> [fs[i] EXCEPT !.messages = <<m>>]]

NoRecipient_Absent(from, toId) == ~Truthy(toId)

\* if (!toId || toId === connectedUserId) return;
NoRecipient(from, toId) == ~Truthy(toId) \/ toId = from

\* the user has no live connection: no open connection is bound to it
Offline(cs, cu, userId) == \A d \in OpenConns(cs) : cu[d] # userId

\* case 'dm': dropped unless the connection has joined and toId names
\* somebody else. The message carries its rank among the direct messages
\* accepted and whether its recipient was offline (seq, offline: history).
\* The insertOne into dm_messages is never read back.
Dm(c, toId, p, text, random) ==
  /\ event' = Event("dm", c, toId)
  /\ connState[c] = "open"
  /\ LET from == connectedUserId[c]
     IN  IF ~Truthy(from) \/ NoRecipient(from, toId)
         THEN /\ out' = <<>>
              /\ UNCHANGED <<dmThreads, dmLog>>
         ELSE LET key == getDMKey(from, toId)
                  dmMsg == [id |-> NewId("dm_", random),
                            fromId |-> from,
                            fromName |-> OrElse(p.name, "Anonyme"),
                            fromPlan |-> OrElse(p.plan, "free"),
                            toId |-> toId,
                            text |-> Slice(text),
                            timestamp |-> clock,
                            seq |-> Len(dmLog) + 1,
                            offline |-> Offline(connState, connectedUserId,
                                                toId)]
              IN  /\ dmThreads' = MapSet(dmThreads, key,
                                         Append(Thread(dmThreads, key), dmMsg))
                  /\ dmLog' = Append(dmLog, dmMsg)
                  /\ out' = sendMessageToUser(connState, userSockets, toId,
                                              "dm", dmMsg)
                            \o sendMessageToUser(connState, userSockets, from,
                                                 "dm_sent", dmMsg)
  /\ UNCHANGED <<connState, connectedUserId, userSockets, onlineUsers,
                 publicMessages, dbChat, sent, db, pending>>
  /\ WsStep

GetDmHistory_ToUser(c, withId) ==
  /\ event' = Event("get_dm_history", c, withId)
  /\ connState[c] = "open"
  /\ out' = IF ~Truthy(connectedUserId[c]) THEN <<>>
            ELSE LET thread == Thread(dmThreads,
                                      getDMKey(connectedUserId[c], withId))
                     sockets == {d \in userSockets[connectedUserId[c]] :
                                   connState[d] = "open"}
                 IN  << [Frame("dm_history", sockets, withId, Len(thread), {})
                           EXCEPT !.messages = thread] >>
  /\ UNCHANGED <<connState, connectedUserId, userSockets, onlineUsers,
                 chatVars, db, pending>>
  /\ WsStep

\* case 'get_dm_history'
GetDmHistory(c, withId) ==
  /\ event' = Event("get_dm_history", c, withId)
  /\ connState[c] = "open"
  /\ out' = IF ~Truthy(connectedUserId[c]) THEN <<>>
            ELSE LET thread == Thread(dmThreads,
                                      getDMKey(connectedUserId[c], withId))
                 IN  << [Frame("dm_history", {c}, withId, Len(thread), {})
                           EXCEPT !.messages = thread] >>
  /\ UNCHANGED <<connState, connectedUserId, userSockets, onlineUsers,
                 chatVars, db, pending>>
  /\ WsStep

\* case 'typing': n is 1 for isTyping
Typing(c, isTyping) ==
  /\ event' = Event("typing", c, NoId)
  /\ connState[c] = "open"
  /\ out' = IF ~Truthy(connectedUserId[c]) THEN <<>>
            ELSE << broadcastToAll(connState, "typing", connectedUserId[c],
                                   IF isTyping THEN 1 ELSE 0, {}) >>
  /\ UNCHANGED <<connState, connectedUserId, userSockets, onlineUsers,
                 chatVars, db, pending>>
  /\ WsStep

DmTyping_Broadcast(c, toId, isTyping) ==
  /\ event' = Event("dm_typing", c, toId)
  /\ connState[c] = "open"
  /\ out' = IF ~Truthy(connectedUserId[c]) \/ rev = "server13" THEN <<>>
            ELSE << broadcastToAll(connState, "dm_typing", connectedUserId[c],
                                   IF isTyping THEN 1 ELSE 0, {}) >>
  /\ UNCHANGED <<connState, connectedUserId, userSockets, onlineUsers,
                 chatVars, db, pending>>
  /\ WsStep

\* case 'dm_typing'; server (13).js has no such case and ignores the event
DmTyping(c, toId, isTyping) ==
  /\ event' = Event("dm_typing", c, toId)
  /\ connState[c] = "open"
  /\ out' = IF ~Truthy(connectedUserId[c]) \/ rev = "server13" THEN <<>>
            ELSE sendToUser(connState, userSockets, toId, "dm_typing",
                            connectedUserId[c], IF isTyping THEN 1 ELSE 0)
  /\ UNCHANGED <<connState, connectedUserId, userSockets, onlineUsers,
                 chatVars, db, pending>>
  /\ WsStep

Closed_KeepEntry(c, left) ==
  /\ event' = Event("close", c, NoId)
  /\ connState[c] = "open"
  /\ connState' = [connState EXCEPT ![c] = "closed"]
  /\ LET u == connectedUserId[c]
     IN  IF Truthy(u) /\ u \in DOMAIN userSockets
         THEN IF userSockets[u] \ {c} = {}
              THEN /\ userSockets' = MapDelete(userSockets, u)
                   /\ UNCHANGED onlineUsers
                   /\ left
              ELSE /\ userSockets' = MapSet(userSockets, u, userSockets[u] \ {c})
                   /\ UNCHANGED onlineUsers
                   /\ ~left
         ELSE /\ UNCHANGED <<userSockets, onlineUsers>>
              /\ ~left
  /\ UNCHANGED <<connectedUserId, chatVars, db, pending>>

\* the registry and roster updates of ws.on('close'); `left` tells whether
\* the user's socket set became empty
Closed(c, left) ==
  /\ event' = Event("close", c, NoId)
  /\ connState[c] = "open"
  /\ connState' = [connState EXCEPT ![c] = "closed"]
  /\ LET u == connectedUserId[c]
     IN  IF Truthy(u) /\ u \in DOMAIN userSockets
         THEN IF userSockets[u] \ {c} = {}
              THEN /\ userSockets' = MapDelete(userSockets, u)
                   /\ onlineUsers' = MapDelete(onlineUsers, u)
                   /\ left
              ELSE /\ userSockets' = MapSet(userSockets, u, userSockets[u] \ {c})
                   /\ UNCHANGED onlineUsers
                   /\ ~left
         ELSE /\ UNCHANGED <<userSockets, onlineUsers>>
              /\ ~left
  /\ UNCHANGED <<connectedUserId, chatVars, db, pending>>

\* ws.on('close')  (src/server.js, and the revision that loads the history)
Close(c) ==
  /\ rev \in {"server", "loader"}
  /\ \E left \in BOOLEAN :
       /\ Closed(c, left)
       /\ out' = IF left
                 THEN << broadcastToAll(connState', "user_left",
                                        connectedUserId[c], 0, {}),
                         broadcastToAll(connState', "online_users", NoId, 0,
                                        Roster(onlineUsers')) >>
                 ELSE <<>>
  /\ WsStep

\* ws.on('close')  (server (13).js)
Close13(c) ==
  /\ rev = "server13"
  /\ \E left \in BOOLEAN :
       /\ Closed(c, left)
       /\ out' = IF left
                 THEN << broadcastToAll(connState', "online_users", NoId, 0,
                                        Roster(onlineUsers')) >>
                 ELSE <<>>
  /\ WsStep

\* raw frames a client can send: not JSON, JSON that is no object, an object
\* with no type, an object with a type no case handles
Raws == {"{bad", "null", "42", "{}", "{\"type\":\"ping\"}"}

\* raw is a JSON text
WellFormed(raw) == raw # "{bad"

\* JSON.parse(raw) with no try/catch: the syntax error becomes a value
JSONParse_NoCatch(raw) ==
  CASE raw = "{bad" -> [ok |-> TRUE, kind |-> "null", type |-> Undefined]
    [] raw = "null" -> [ok |-> TRUE, kind |-> "null", type |-> Undefined]
    [] raw = "42" -> [ok |-> TRUE, kind |-> "number", type |-> Undefined]
    [] raw = "{}" -> [ok |-> TRUE, kind |-> "object", type |-> Undefined]
    [] OTHER -> [ok |-> TRUE, kind |-> "object", type |-> "ping"]

\* try { data = JSON.parse(raw); } catch(e) { return; }
\* ok is FALSE when JSON.parse throws
JSONParse(raw) ==
  CASE raw = "{bad" -> [ok |-> FALSE, kind |-> "none", type |-> Undefined]
    [] raw = "null" -> [ok |-> TRUE, kind |-> "null", type |-> Undefined]
    [] raw = "42" -> [ok |-> TRUE, kind |-> "number", type |-> Undefined]
    [] raw = "{}" -> [ok |-> TRUE, kind |-> "object", type |-> Undefined]
    [] OTHER -> [ok |-> TRUE, kind |-> "object", type |-> "ping"]

\* ws.on('message', raw) for a frame that no case of the switch handles.
\* data.type is a TypeError on null and undefined on a number or on an object
\* without the property. The TypeError leaves the listener, nothing handles
\* it (no process.on('uncaughtException')) and the process exits: every
\* socket is torn down ("reset") with no close handler run, and none is
\* accepted any more
OnMessage(c, raw) ==
  /\ event' = Event(IF WellFormed(raw) THEN "unhandled" ELSE "malformed",
                     c, NoId)
  /\ connState[c] = "open"
  /\ connState' = IF JSONParse(raw).ok /\ JSONParse(raw).kind = "null"
                  THEN [d \in Conns |-> "reset"]
                  ELSE connState
  /\ out' = <<>>
  /\ UNCHANGED <<connectedUserId, userSockets, onlineUsers, chatVars, db,
                 pending>>
  /\ WsStep

\* connectDB() of the revision that loads the chat history:
\* await client.connect(); db = client.db('viralboost'); the find is awaited next
ConnectDBLoader ==
  /\ event' = NoEvent
  /\ rev = "loader"
  /\ mongoUri
  /\ ~db
  /\ db' = TRUE
  /\ pending' = pending \cup {Await("load", NoId, NoId, NoBody)}
  /\ out' = <<>>
  /\ UNCHANGED <<connState, connectedUserId, userSockets, onlineUsers,
                 chatVars>>
  /\ WsStep

\* savedMessages = await find({}).sort({timestamp: -1}).limit(200).toArray();
\* savedMessages.reverse().forEach(m => publicMessages.push(m));
\* chat_messages is held in timestamp order. A rejected find is only logged.
LoadHistory(r) ==
  /\ event' = NoEvent
  /\ r.op = "load" /\ r.st = "sent"
  /\ pending' = pending \ {r}
  /\ \E ok \in BOOLEAN :
       LET savedMessages == IF ok THEN LastN(dbChat, LoadLimit) ELSE <<>>
       IN  /\ publicMessages' = publicMessages \o savedMessages
           /\ sent' = sent + Len(savedMessages)
  /\ out' = <<>>
  /\ UNCHANGED <<connState, connectedUserId, userSockets, onlineUsers,
                 dmThreads, dbChat, dmLog, db>>
  /\ WsStep

-----------------------------------------------------------------------------
(* The project and vote subsystem, once connectDB() has settled: `db` is    *)
(* set, or stays null (no MONGO_URI, or the connection failed). One client  *)
(* is connected and listens to the broadcasts                               *)

InitVote ==
  /\ rev \in {"server", "server13"}
  /\ mongoUri \in (IF rev = "server" THEN BOOLEAN ELSE {FALSE})
  /\ db = mongoUri
  /\ connState = [NoConnState EXCEPT ![1] = "open"]
  /\ dbChat = <<>>
  /\ InitStores

NextVote ==
  \/ \E id \in ProjIds : CreateProject(Posted(id, 0))
  \/ \E id \in ProjIds, userId \in Voters \cup {NoId} : VoteProject(id, userId)
  \/ \E id \in ProjIds, key \in Keys : DeleteProject(id, key)
  \/ \E r \in pending : DbInsertProject(r)
  \/ \E r \in pending : DbIncVotes(r)
  \/ \E r \in pending : DbDeleteProject(r)
  \/ \E r \in pending : Rejected(r)
  \/ \E r \in pending : ResumeCreate(r)
  \/ \E r \in pending : ResumeVote(r)
  \/ \E r \in pending : ResumeDelete(r)
  \/ \E id \in ProjIds : CreateProject13(Posted(id, 0))
  \/ \E id \in ProjIds, userId \in Voters \cup {NoId} : VoteProject13(id, userId)
  \/ \E id \in ProjIds, key \in Keys : DeleteProject13(id, key)

SpecVote == InitVote /\ [][NextVote]_vars

-----------------------------------------------------------------------------
(* Publication of projects in server.js and server (13).js, once           *)
(* connectDB() has settled: every request carries votes and views of its   *)
(* own, 1 or 2, and one client listens to the broadcasts                   *)

NextPublish ==
  \/ \E id \in ProjIds, seed \in 1..2 : CreateProject(Posted(id, seed))
  \/ \E id \in ProjIds, seed \in 1..2 : CreateProject13(Posted(id, seed))
  \/ \E id \in ProjIds, userId \in Voters : VoteProject(id, userId)
  \/ \E id \in ProjIds, userId \in Voters : VoteProject13(id, userId)
  \/ \E r \in pending : DbInsertProject(r)
  \/ \E r \in pending : DbIncVotes(r)
  \/ \E r \in pending : Rejected(r)
  \/ \E r \in pending : ResumeCreate(r)
  \/ \E r \in pending : ResumeVote(r)

SpecPublish == InitVote /\ [][NextPublish]_vars

-----------------------------------------------------------------------------
(* Registration in the three revisions, from process start: connectDB      *)
(* settles while requests are already being served                          *)

InitUsers ==
  /\ rev \in {"server", "server13", "nodb"}
  /\ mongoUri \in (IF rev = "server13" THEN {FALSE} ELSE BOOLEAN)
  /\ db = FALSE
  /\ connState = NoConnState
  /\ dbChat = <<>>
  /\ InitStores

NextUsers ==
  \/ connectDB
  \/ Tick
  \/ \E email \in Emails \cup {NoId}, body \in Bodies : RegisterUser(email, body)
  \/ \E email \in Emails \cup {NoId}, body \in Bodies : RegisterUser13(email, body)
  \/ \E email \in Emails \cup {NoId}, body \in Bodies : RegisterUserNoDb(email, body)
  \/ \E r \in pending : DbUpsertUser(r)
  \/ \E r \in pending : DbUpsertUserNoDb(r)
  \/ \E r \in pending : ResumeRegister(r)
  \/ \E r \in pending : Rejected(r)

SpecUsers == InitUsers /\ [][NextUsers]_vars

-----------------------------------------------------------------------------
(* Presence in server.js and server (13).js: connections join, re-join and  *)
(* close as u1, u2 or the empty identity, with a full profile or an empty   *)
(* one; connections are accepted up to one fewer than MaxConns              *)

InitWS ==
  /\ rev \in {"server", "server13"}
  /\ mongoUri = FALSE
  /\ db = FALSE
  /\ connState = NoConnState
  /\ dbChat = <<>>
  /\ InitStores

NextWS ==
  \/ \E c \in Conns : c < MaxConns /\ Connect(c)
  \/ \E c \in Conns, userId \in UserIds \cup {NoId}, p \in Profiles :
       Join(c, userId, p)
  \/ \E c \in Conns, userId \in UserIds \cup {NoId}, p \in Profiles :
       Join13(c, userId, p)
  \/ \E c \in Conns : Close(c)
  \/ \E c \in Conns : Close13(c)

SpecWS == InitWS /\ [][NextWS]_vars

-----------------------------------------------------------------------------
(* A long run of the public channel in server.js and server (13).js: up to *)
(* MaxMessages messages, with connections accepted and joining at any      *)
(* point of it (one connection fewer than MaxConns, and                    *)
(* none of them closing, to keep the long run small)                       *)

NextHistory ==
  \/ \E c \in Conns : c < MaxConns /\ Connect(c)
  \/ \E c \in Conns : Join(c, "u1", Ann)
  \/ \E c \in Conns : Join13(c, "u1", Ann)
  \/ \E c \in Conns :
       /\ sent < MaxMessages
       /\ Message(c, Ann, Text("hi", 2), 0)

SpecHistory == InitWS /\ [][NextHistory]_vars

-----------------------------------------------------------------------------
(* The public channel in server.js and server (13).js, from process start: *)
(* up to MaxChat messages are stored, sent by user u1 on connections that  *)
(* join (as u1, or without an identity), re-join and close at any point;   *)
(* every kind of event arrives on every connection, direct messages being  *)
(* addressed to u2                                                         *)

Hi == Text("hi", 2)

\* messages stored since the process started
Stored == sent + Len(dmLog)

NextChat ==
  \/ \E c \in Conns : Connect(c)
  \/ \E c \in Conns, userId \in {"u1", NoId} : Join(c, userId, Ann)
  \/ \E c \in Conns, userId \in {"u1", NoId} : Join13(c, userId, Ann)
  \/ \E c \in Conns, text \in Texts :
       Stored < MaxChat /\ Message(c, Forged, text, 0)
  \/ \E c \in Conns : Stored < MaxChat /\ Dm(c, "u2", Forged, Hi, 0)
  \/ \E c \in Conns : GetDmHistory(c, "u2")
  \/ \E c \in Conns : Typing(c, TRUE)
  \/ \E c \in Conns : DmTyping(c, "u1", TRUE)
  \/ \E c \in Conns : Close(c)
  \/ \E c \in Conns : Close13(c)

SpecChat == InitWS /\ [][NextChat]_vars

-----------------------------------------------------------------------------
(* Direct messages in server.js and server (13).js: up to MaxChat messages *)
(* between users u1 and u2, on connections that join, re-join and close at *)
(* any point                                                               *)

NextDm ==
  \/ \E c \in Conns : Connect(c)
  \/ \E c \in Conns, userId \in UserIds : Join(c, userId, Ann)
  \/ \E c \in Conns, userId \in UserIds : Join13(c, userId, Ann)
  \/ \E c \in Conns, toId \in UserIds \cup {NoId, Undefined} :
       Stored < MaxChat /\ Dm(c, toId, Ann, Hi, 0)
  \/ \E c \in Conns, withId \in UserIds : GetDmHistory(c, withId)
  \/ \E c \in Conns : Close(c)
  \/ \E c \in Conns : Close13(c)

SpecDm == InitWS /\ [][NextDm]_vars

-----------------------------------------------------------------------------
(* Direct messages between users whose identities may hold the separator   *)
(* of the thread keys, in server.js and server (13).js: one connection     *)
(* fewer than MaxConns, joining as u1 or u1:u1 and writing to u2 or u1:u2, *)
(* up to MaxChat messages                                                  *)

\* the identities a join may name: every string of the sort order but ''
Names == {SortOrder[i] : i \in 2..Len(SortOrder)}

NextKeys ==
  \/ \E c \in Conns : c < MaxConns /\ Connect(c)
  \/ \E c \in Conns, userId \in Names \ {"u2", "u1:u2"} : Join(c, userId, Ann)
  \/ \E c \in Conns, userId \in Names \ {"u2", "u1:u2"} :
       Join13(c, userId, Ann)
  \/ \E c \in Conns, toId \in Names \ {"u1", "u1:u1"} :
       Stored < MaxChat /\ Dm(c, toId, Ann, Hi, 0)
  \/ \E c \in Conns, withId \in Names \ {"u1", "u1:u1"} :
       GetDmHistory(c, withId)

SpecKeys == InitWS /\ [][NextKeys]_vars

-----------------------------------------------------------------------------
(* The revision that loads the chat history, from process start: the       *)
(* server listens while connectDB() runs, and chat_messages may hold a     *)
(* message of an earlier run. Up to MaxChat messages, public or direct,    *)
(* are stored, on one connection fewer than MaxConns                       *)

Saved ==
  [id |-> [prefix |-> "", value |-> 0], userId |-> "u1", name |-> "Ann",
   plan |-> "pro", text |-> Hi, timestamp |-> 0, seq |-> 0]

InitLoader ==
  /\ InitStores
  /\ rev = "loader"
  /\ mongoUri \in BOOLEAN
  /\ db = FALSE
  /\ connState = NoConnState
  /\ dbChat \in (IF mongoUri THEN {<<>>, <<Saved>>} ELSE {<<>>})

NextLoader ==
  \/ ConnectDBLoader
  \/ \E r \in pending : LoadHistory(r)
  \/ \E c \in Conns : c < MaxConns /\ Connect(c)
  \/ \E c \in Conns, userId \in UserIds : JoinLoader(c, userId, Ann)
  \/ \E r \in pending : ProjectsHistory(r)
  \/ \E c \in Conns : Stored < MaxChat /\ Message(c, Ann, Hi, 0)
  \/ \E c \in Conns, toId \in UserIds :
       Stored < MaxChat /\ Dm(c, toId, Ann, Hi, 0)
  \/ \E c \in Conns : Close(c)

SpecLoader == InitLoader /\ [][NextLoader]_vars

-----------------------------------------------------------------------------
(* The join in the three revisions that replay the history, from process   *)
(* start, the database of the loading revision connecting or not: users    *)
(* join, re-join and leave while up to MaxChat public messages are sent,   *)
(* on one connection fewer than MaxConns; frames that no case handles     *)
(* arrive on any open connection                                           *)

InitJoin ==
  /\ InitStores
  /\ rev \in {"server", "server13", "loader"}
  /\ mongoUri \in (IF rev = "loader" THEN BOOLEAN ELSE {FALSE})
  /\ db = FALSE
  /\ connState = NoConnState
  /\ dbChat = <<>>

NextJoin ==
  \/ ConnectDBLoader
  \/ \E r \in pending : LoadHistory(r)
  \/ \E c \in Conns : c < MaxConns /\ Connect(c)
  \/ \E c \in Conns, userId \in UserIds : Join(c, userId, Ann)
  \/ \E c \in Conns, userId \in UserIds : Join13(c, userId, Ann)
  \/ \E c \in Conns, userId \in UserIds : JoinLoader(c, userId, Ann)
  \/ \E r \in pending : ProjectsHistory(r)
  \/ \E c \in Conns : Stored < MaxChat /\ Message(c, Ann, Hi, 0)
  \/ \E c \in Conns : Close(c)
  \/ \E c \in Conns : Close13(c)
  \/ \E c \in Conns, raw \in Raws : OnMessage(c, raw)

SpecJoin == InitJoin /\ [][NextJoin]_vars

-----------------------------------------------------------------------------
(* The admin-gated requests of server.js and server (13).js, once          *)
(* connectDB() has settled: user u1 registers and joins, project p1 is     *)
(* published, and bans, deletions and listings arrive with any key         *)

InitAdmin ==
  /\ InitStores
  /\ rev \in {"server", "server13"}
  /\ mongoUri \in (IF rev = "server13" THEN {FALSE} ELSE BOOLEAN)
  /\ db = mongoUri
  /\ connState = NoConnState
  /\ dbChat = <<>>

NextAdmin ==
  \/ \E c \in Conns : c < MaxConns /\ Connect(c)
  \/ \E c \in Conns : Join(c, "u1", Ann)
  \/ \E c \in Conns : Join13(c, "u1", Ann)
  \/ \E body \in Bodies : RegisterUser("u1", body)
  \/ \E body \in Bodies : RegisterUser13("u1", body)
  \/ CreateProject(Posted("p1", 0))
  \/ CreateProject13(Posted("p1", 0))
  \/ \E email \in Emails, key \in AdminKeys : BanUser(email, key)
  \/ \E email \in Emails, key \in AdminKeys : BanUser13(email, key)
  \/ \E key \in AdminKeys : DeleteProject("p1", key)
  \/ \E key \in AdminKeys : DeleteProject13("p1", key)
  \/ \E key \in AdminKeys : AllUsers(key)
  \/ \E key \in AdminKeys : AllUsers13(key)
  \/ \E r \in pending : DbUpsertUser(r)
  \/ \E r \in pending : DbInsertProject(r)
  \/ \E r \in pending : DbBanUser(r)
  \/ \E r \in pending : DbDeleteProject(r)
  \/ \E r \in pending : DbFindUsers(r)
  \/ \E r \in pending : ResumeRegister(r)
  \/ \E r \in pending : ResumeCreate(r)
  \/ \E r \in pending : ResumeBan(r)
  \/ \E r \in pending : ResumeDelete(r)
  \/ \E r \in pending : ResumeAllUsers(r)
  \/ \E r \in pending : Rejected(r)

SpecAdmin == InitAdmin /\ [][NextAdmin]_vars

-----------------------------------------------------------------------------
(* The mutations that src/server.js broadcasts, once connectDB() has        *)
(* settled: messages and direct messages of user u1, and the publication,   *)
(* vote and deletion of project p1, with a database or without, on one      *)
(* connection fewer than MaxConns                                            *)

NextDurable ==
  \/ \E c \in Conns : c < MaxConns /\ Connect(c)
  \/ \E c \in Conns : Join(c, "u1", Ann)
  \/ \E c \in Conns : Stored < MaxChat /\ Message(c, Ann, Hi, 0)
  \/ \E c \in Conns : Stored < MaxChat /\ Dm(c, "u2", Ann, Hi, 0)
  \/ CreateProject(Posted("p1", 0))
  \/ \E userId \in Voters : VoteProject("p1", userId)
  \/ DeleteProject("p1", ADMIN_KEY)
  \/ \E r \in pending : DbInsertProject(r)
  \/ \E r \in pending : DbIncVotes(r)
  \/ \E r \in pending : DbDeleteProject(r)
  \/ \E r \in pending : Rejected(r)
  \/ \E r \in pending : ResumeCreate(r)
  \/ \E r \in pending : ResumeVote(r)
  \/ \E r \in pending : ResumeDelete(r)

\* src/server.js once connectDB() has settled: db set or null, empty stores
InitDurable == InitAdmin /\ rev = "server"

SpecDurable == InitDurable /\ [][NextDurable]_vars

-----------------------------------------------------------------------------
(* The capacity of the public buffer in the three revisions, on one        *)
(* connection. Without a database the clients fill the buffer and send     *)
(* MaxChat messages more; with the database of the loading revision,       *)
(* chat_messages holds LoadLimit messages of an earlier run and the        *)
(* clients send up to MaxChat messages, before or after the load           *)

InitCapacity ==
  /\ InitStores
  /\ rev \in {"server", "server13", "loader"}
  /\ mongoUri \in (IF rev = "loader" THEN BOOLEAN ELSE {FALSE})
  /\ db = FALSE
  /\ connState = NoConnState
  /\ dbChat = IF mongoUri
              THEN [i \in 1..LoadLimit |->
                      [Saved EXCEPT !.seq = i - LoadLimit,
                                    !.id.value = i - LoadLimit]]
              ELSE <<>>

NextCapacity ==
  \/ ConnectDBLoader
  \/ \E r \in pending : LoadHistory(r)
  \/ \E c \in Conns : c = 1 /\ Connect(c)
  \/ \E c \in Conns : Join(c, "u1", Ann)
  \/ \E c \in Conns : Join13(c, "u1", Ann)
  \/ \E c \in Conns : JoinLoader(c, "u1", Ann)
  \/ \E r \in pending : ProjectsHistory(r)
  \/ \E c \in Conns :
       /\ sent < MaxChat + (IF ~mongoUri THEN MessagesCap
                            ELSE IF Len(publicMessages) >= LoadLimit
                                 THEN LoadLimit ELSE 0)
       /\ Message(c, Ann, Hi, 0)

SpecCapacity == InitCapacity /\ [][NextCapacity]_vars

-----------------------------------------------------------------------------
(* The ids of the messages in server.js and server (13).js: user u1 sends  *)
(* up to MaxChat public or direct messages while the clock advances or     *)
(* stands still, Math.random() returning any of its values                 *)

NextIds ==
  \/ Tick
  \/ \E c \in Conns : c < MaxConns /\ Connect(c)
  \/ \E c \in Conns : Join(c, "u1", Ann)
  \/ \E c \in Conns : Join13(c, "u1", Ann)
  \/ \E c \in Conns, random \in Randoms :
       Stored < MaxChat /\ Message(c, Ann, Hi, random)
  \/ \E c \in Conns, random \in Randoms :
       Stored < MaxChat /\ Dm(c, "u2", Ann, Hi, random)

SpecIds == InitWS /\ [][NextIds]_vars

-----------------------------------------------------------------------------
(* Properties of the vote subsystem *)

\* the store the handlers read and write: MongoDB once `db` is set
Projects == IF db THEN dbProjects ELSE inMemoryProjects

Exists(arr, id) == FindIndex(arr, id) # 0

Counter(arr, id) == arr[FindIndex(arr, id)].votes

\* C1: once every vote request of voter u on project id has been answered
\* (u voted, none of its requests is still suspended), exactly one of them
\* was accepted with ok:true.
C1_ExactlyOneAccepted ==
  \A id \in ProjIds, u \in Voters :
    (/\ HasVoted(inMemoryVotes, id, u)
     /\ ~\E r \in pending : r.op = "vote" /\ r.id = id /\ r.userId = u)
      => <<id, u>> \in okVotes

\* C2: the answer to a vote of voter u on project id is already_voted, with
\* the voter set and the counter unchanged, when u was in the voter set as the
\* request arrived; otherwise, for an existing project, it is ok:true with u
\* in the set, the counter one higher and the returned count equal to the
\* counter after the increment.
C2_VoteContract ==
  [][LET \* the suspended vote handlers that answer in this step
        VoteAnswered == {r \in pending \ pending' : r.op = "vote"}
    IN  (resp'.op = "vote" /\ resp'.status # 400)
       => IF VoteAnswered = {}
             /\ HasVoted(inMemoryVotes, resp'.id, resp'.userId)
          THEN /\ resp' = AlreadyVoted(resp'.id, resp'.userId)
               /\ UNCHANGED <<inMemoryVotes, projVars>>
          ELSE IF VoteAnswered = {}
          THEN Exists(inMemoryProjects, resp'.id)
                 => /\ resp'.ok = "true"
                    /\ HasVoted(inMemoryVotes', resp'.id, resp'.userId)
                    /\ Counter(inMemoryProjects', resp'.id)
                         = Counter(inMemoryProjects, resp'.id) + 1
                    /\ resp'.votes = Counter(inMemoryProjects', resp'.id)
          ELSE \A r \in VoteAnswered :
                 (r.found \/ (r.st = "sent" /\ Exists(dbProjects, r.id)))
                   => /\ resp'.ok = "true"
                      /\ HasVoted(inMemoryVotes', resp'.id, resp'.userId)
                      /\ r.found
                      /\ resp'.votes = r.res ]_vars

\* C3: every existing project's counter equals the number of voters recorded
\* for its id.
C3_CounterIsCardinality ==
  \A i \in 1..Len(Projects) :
    Projects[i].votes = Cardinality(VoterSet(inMemoryVotes, Projects[i].id))

\* C4: a vote whose counter update failed (answered with a server error)
\* leaves the voter out of the voter set, as before the request.
C4_FailedVoteNotApplied ==
  (resp.op = "vote" /\ resp.status = 500)
    => ~HasVoted(inMemoryVotes, resp.id, resp.userId)

\* C5: once a vote of u on id has been answered ok:true, every later answer
\* to a vote of u on id is already_voted, and that step changes neither the
\* voter sets nor any counter, suspends nothing and broadcasts nothing.
C5_AlreadyVotedForever ==
  [][ (resp'.op = "vote" /\ <<resp'.id, resp'.userId>> \in okVotes)
       => /\ resp' = AlreadyVoted(resp'.id, resp'.userId)
          /\ out' = <<>>
          /\ UNCHANGED <<inMemoryVotes, projVars, pending, okVotes>> ]_vars

C5_Witness ==
  /\ resp.reason = "already_voted"
  /\ <<resp.id, resp.userId>> \in okVotes
  /\ Cardinality(okVotes) >= 2
  /\ db

-----------------------------------------------------------------------------
(* Properties of the user subsystem *)

\* the store the handlers read and write: MongoDB once `db` is set
Users == IF db THEN dbUsers ELSE inMemoryUsers

\* C7: after two registrations under one email there is one record for it,
\* with the creation timestamp the first call gave it and the name, handle,
\* plan, avatar and project count of the last call.
C7_RegisterIsUpsert ==
  \A e \in DOMAIN regHist :
    (rev # "nodb" /\ regHist[e].n = 2) =>
      /\ e \in DOMAIN Users
      /\ Users[e].createdAt = regHist[e].first
      /\ Users[e].name = regHist[e].last.name
      /\ Users[e].username = regHist[e].last.username
      /\ Users[e].plan = OrElse(regHist[e].last.plan, "free")
      /\ Users[e].avatar = regHist[e].last.avatar
      /\ Users[e].projectsCount = regHist[e].last.projectsCount

\* C8: a registration without an email, or a vote without a user id, is
\* answered with a client error (400) and changes no stored state.
C8_MissingIdRejected ==
  [][ ((resp'.op = "register" /\ resp'.id = NoId) \/
       (resp'.op = "vote" /\ resp'.userId = NoId))
      => /\ resp'.status = 400
         /\ out' = <<>>
         /\ UNCHANGED <<projVars, inMemoryVotes, userVars, pending>> ]_vars

-----------------------------------------------------------------------------
(* Properties of the WebSocket subsystem *)

\* the open connections bound to user u
Bound(cs, cu, u) == {c \in Conns : cs[c] = "open" /\ cu[c] = u}

\* C9: when the last open connection bound to a user closes, the roster no
\* longer holds that user and the step broadcasts a user_left naming the user
\* before any online_users snapshot.
C9_LastCloseLeaves ==
  [][LET \* the connections the step closes
        Closing ==
          {c \in Conns : connState[c] = "open" /\ connState'[c] = "closed"}
        \* frames of type `type` naming `id` among the frames fs
        Sent(fs, type, id) ==
          {i \in 1..Len(fs) : fs[i].type = type /\ fs[i].id = id}
    IN  \A c \in Closing :
        LET u == connectedUserId[c]
        IN  (u \in UserIds /\ Bound(connState', connectedUserId', u) = {})
            => /\ u \notin DOMAIN onlineUsers'
               /\ \E i \in Sent(out', "user_left", u) :
                    \A j \in Sent(out', "online_users", NoId) : i < j ]_vars

\* C10: a user (an identity given by some join, the empty one included) has a
\* presence entry exactly when some open connection is bound to it.
C10_PresenceIffBound ==
  \A u \in UserIds \cup {NoId} :
    (u \in DOMAIN onlineUsers) <=> (Bound(connState, connectedUserId, u) # {})

-----------------------------------------------------------------------------
(* Properties of the public channel and of the direct messages *)

Min(a, b) == IF a < b THEN a ELSE b

\* the history frames among the frames of a step
Histories(fs) == {i \in DOMAIN fs : fs[i].type = "history"}

\* C11: a connection that joins after n public messages were sent receives a
\* history frame holding exactly the min(50, n) most recent messages, in the
\* order they were sent
C11_HistoryWindow ==
  [][\A i \in Histories(out') :
       LET h == out'[i].messages
       IN  /\ Len(h) = Min(HistoryCap, sent)
           /\ \A j \in DOMAIN h : h[j].seq = sent - Len(h) + j]_vars

\* a join after more than 50 messages answered with a window of 50
C11_Witness ==
  /\ sent > HistoryCap
  /\ \E i \in Histories(out) : Len(out[i].messages) = HistoryCap

\* the step handles a message event carrying `text` on a joined connection
MessageFrom(c, text) ==
  /\ Truthy(connectedUserId[c])
  /\ (\E random \in Randoms : Message(c, Ann, text, random))

\* the step sends one message frame, to every open connection, and the
\* buffer grows by one while below capacity
Broadcast ==
  /\ Len(out') = 1
  /\ out'[1].type = "message"
  /\ out'[1].to = OpenConns(connState)
  /\ Len(out'[1].messages) = 1
  /\ Len(publicMessages) < MessagesCap
       => Len(publicMessages') = Len(publicMessages) + 1

\* C12 as stated: a public message sent by a joined connection is delivered
\* as one message event with the sent text to every open connection, the
\* sender's connections included, and the buffer grows by one
C12_SentTextDelivered ==
  [][\A c \in Conns, text \in Texts \ {NoText} :
       MessageFrom(c, text)
         => /\ Broadcast
            /\ c \in out'[1].to
            /\ out'[1].messages[1].text = text]_vars

\* C12, amended: the event carries the first 500 characters of the sent text
C12_TruncatedTextDelivered ==
  [][\A c \in Conns, text \in Texts \ {NoText} :
       MessageFrom(c, text)
         => /\ Broadcast
            /\ c \in out'[1].to
            /\ out'[1].messages[1].text.str = text.str
            /\ out'[1].messages[1].text.len = Min(text.len, MaxTextLen)]_vars

\* a text longer than 500 characters was delivered, cut, to two connections
\* of the sender and to a third connection
C12_Witness ==
  /\ Len(out) = 1
  /\ out[1].type = "message"
  /\ out[1].messages[1].text = Text("long", MaxTextLen)
  /\ out[1].to = Conns
  /\ \E c, d \in Conns :
       /\ c # d
       /\ connectedUserId[c] = out[1].id
       /\ connectedUserId[d] = out[1].id

\* the frames of the given types among the frames of a step, in order
Events(fs, types) == SelectSeq(fs, LAMBDA f : f.type \in types)

\* the messages that connection c receives in events of the given types
Received(c, fs, types) ==
  LET evs == SelectSeq(fs, LAMBDA f : f.type \in types /\ c \in f.to)
  IN  [i \in DOMAIN evs |-> evs[i].messages[1]]

\* C13: on the public channel and on each DM thread, a listener that stays
\* open receives the message events in the order in which the messages are
\* appended to the stored sequence, each once: every append is delivered by
\* the step that makes it, and nothing else is
C13_DeliveryIsAppendOrder ==
  [][LET \* the public channel: every open connection receives, as message events of
        \* the step, exactly the messages the step appends, in the order of the append
        PublicInOrder ==
          LET n == sent' - sent
              k == Len(publicMessages')
          IN  \A c \in OpenConns(connState) :
                Received(c, out', {"message"}) = SubSeq(publicMessages', k - n + 1, k)

        \* a DM thread: dm and dm_sent events are sent only by the step that appends
        \* a message to the thread, carry that message, and reach a connection once
        DirectInOrder ==
          LET evs == Events(out', {"dm", "dm_sent"})
          IN  IF dmLog' = dmLog
              THEN evs = <<>>
              ELSE LET dmMsg == dmLog'[Len(dmLog')]
                       key == getDMKey(dmMsg.fromId, dmMsg.toId)
                   IN  /\ dmLog' = Append(dmLog, dmMsg)
                       /\ dmThreads' = MapSet(dmThreads, key,
                                              Append(Thread(dmThreads, key), dmMsg))
                       /\ \A i \in DOMAIN evs : evs[i].messages = <<dmMsg>>
                       /\ Len(Events(out', {"dm"})) <= 1
                       /\ Len(Events(out', {"dm_sent"})) <= 1
    IN  PublicInOrder /\ DirectInOrder]_vars

\* the step handles get_dm_history(withId) on a connection joined as another
\* user than withId
HistoryAsked(c, withId) ==
  /\ Truthy(connectedUserId[c])
  /\ withId # connectedUserId[c]
  /\ GetDmHistory(c, withId)

\* C14: for distinct users a and b, get_dm_history(withId = a) issued by b
\* and get_dm_history(withId = b) issued by a return the same sequence: every
\* DM exchanged between a and b, in either direction, in send order
C14_SameThreadBothWays ==
  [][LET \* the direct messages exchanged between a and b, in send order
        Between(log, a, b) ==
          SelectSeq(log, LAMBDA m : {m.fromId, m.toId} = {a, b})
    IN  \A c \in Conns, withId \in UserIds :
       HistoryAsked(c, withId)
         => /\ Len(out') = 1
            /\ out'[1].type = "dm_history"
            /\ out'[1].messages = Between(dmLog, connectedUserId[c], withId)
            /\ out'[1].messages =
                 Thread(dmThreads, getDMKey(withId, connectedUserId[c]))]_vars

\* a history of two messages, one in each direction, was returned
C14_Witness ==
  /\ Len(out) = 1
  /\ out[1].type = "dm_history"
  /\ Len(out[1].messages) = 2
  /\ out[1].messages[1].fromId = out[1].messages[2].toId
  /\ out[1].messages[1].toId = out[1].messages[2].fromId

\* the step handles a dm event for toId on a joined connection of another user
DmFrom(c, toId) ==
  /\ Truthy(connectedUserId[c])
  /\ Truthy(toId)
  /\ toId # connectedUserId[c]
  /\ (\E random \in Randoms : Dm(c, toId, Ann, Hi, random))

\* C15: a DM sent to a user who has no live connection is still appended to
\* the pair's thread, and a get_dm_history for the pair issued later by the
\* recipient, once joined, returns it
C15_OfflineDmKept ==
  [][/\ \A c \in Conns, toId \in UserIds :
          DmFrom(c, toId) /\ Offline(connState, connectedUserId, toId)
            => LET key == getDMKey(connectedUserId[c], toId)
               IN  /\ key \in DOMAIN dmThreads'
                   /\ Len(dmThreads'[key]) = Len(Thread(dmThreads, key)) + 1
                   /\ dmThreads'[key][Len(dmThreads'[key])] = dmLog'[Len(dmLog')]
                   /\ dmLog'[Len(dmLog')].offline
     /\ \A c \in Conns, withId \in UserIds :
          HistoryAsked(c, withId)
            => \A i \in DOMAIN dmLog :
                 /\ dmLog[i].offline
                 /\ dmLog[i].toId = connectedUserId[c]
                 /\ dmLog[i].fromId = withId
                 => \E j \in DOMAIN out'[1].messages :
                      out'[1].messages[j] = dmLog[i]]_vars

\* the recipient of a DM sent while it had no live connection has joined,
\* asked for the history, and got the DM
C15_Witness ==
  /\ Len(out) = 1
  /\ out[1].type = "dm_history"
  /\ \E c \in out[1].to, j \in DOMAIN out[1].messages :
       /\ out[1].messages[j].offline
       /\ out[1].messages[j].toId = connectedUserId[c]

\* C16: an accepted DM from S to R is delivered as a dm event to every open
\* connection owned by R and as a dm_sent echo to every open connection owned
\* by S, S's other devices included, each exactly once
C16_DmReachesBothParties ==
  [][\A c \in Conns, toId \in UserIds :
       DmFrom(c, toId)
         => \A d \in OpenConns(connState) :
              /\ connectedUserId[d] = toId
                   => Received(d, out', {"dm"}) = <<dmLog'[Len(dmLog')]>>
              /\ connectedUserId[d] = connectedUserId[c]
                   => Received(d, out', {"dm_sent"}) = <<dmLog'[Len(dmLog')]>>]_vars

\* a DM reached a connection of the recipient and was echoed to two
\* connections of the sender
C16_Witness ==
  /\ Len(out) = 2
  /\ out[1].type = "dm"
  /\ out[2].type = "dm_sent"
  /\ \E d \in out[1].to : connectedUserId[d] = out[1].messages[1].toId
  /\ \E d, e \in out[2].to :
       /\ d # e
       /\ connectedUserId[d] = out[2].messages[1].fromId
       /\ connectedUserId[e] = out[2].messages[1].fromId

\* C17: a message, dm, get_dm_history, typing or dm_typing event arriving on
\* a connection that has not joined is dropped silently: the public buffer,
\* the DM threads, the roster and the registry are unchanged and no frame is
\* sent to any connection
C17_AnonymousDropped ==
  [][LET \* the step handles one of these events on connection c
        Handles(c) ==
          \/ \E text \in Texts, random \in Randoms :
               Message(c, Ann, text, random)
          \/ \E random \in Randoms : Dm(c, "u2", Ann, Hi, random)
          \/ GetDmHistory(c, "u2")
          \/ Typing(c, TRUE)
          \/ DmTyping(c, "u1", TRUE)
    IN  \A c \in Conns :
       connectedUserId[c] = Null /\ Handles(c)
         => /\ out' = <<>>
            /\ UNCHANGED <<publicMessages, dmThreads, onlineUsers,
                           userSockets, connectedUserId, connState>>]_vars

\* an event that requires a joined connection was dropped on a connection
\* that had not joined, while a joined connection was open to receive frames
C17_Witness ==
  /\ event.type \in {"message", "dm", "get_dm_history", "typing", "dm_typing"}
  /\ connState[event.conn] = "open"
  /\ connectedUserId[event.conn] = Null
  /\ out = <<>>
  /\ \E d \in OpenConns(connState) : connectedUserId[d] = "u1"

\* C18: a dm event whose toId is absent or equals the sender's bound identity
\* is rejected: no DM thread is created or extended, and neither a dm nor a
\* dm_sent frame is sent to any connection
C18_NoSelfDm ==
  [][\A c \in Conns, toId \in UserIds \cup {NoId, Undefined} :
       /\ Truthy(connectedUserId[c])
       /\ toId \in {NoId, Undefined, connectedUserId[c]}
       /\ (\E random \in Randoms : Dm(c, toId, Ann, Hi, random))
       => /\ dmThreads' = dmThreads
          /\ Events(out', {"dm", "dm_sent"}) = <<>>]_vars

\* a joined connection sent a dm to its own identity and nothing was sent
C18_Witness ==
  /\ event.type = "dm"
  /\ connState[event.conn] = "open"
  /\ Truthy(connectedUserId[event.conn])
  /\ event.toId = connectedUserId[event.conn]
  /\ out = <<>>
  /\ dmLog # <<>>

\* C19: once a connection has processed a join event it never returns to the
\* anonymous state: until it closes, its message, dm and typing events are
\* accepted, and each further join binds it to the identity of that join
C19_StaysJoined ==
  [][\A c \in Conns :
       connState[c] = "open" /\ connectedUserId[c] # Null
         => /\ (\E text \in Texts, random \in Randoms :
                   Message(c, Ann, text, random))
                 => /\ sent' = sent + 1
                    /\ Events(out', {"message"}) # <<>>
            /\ (\E random \in Randoms : Dm(c, "u2", Ann, Hi, random))
               /\ connectedUserId[c] # "u2"
                 => /\ Len(dmLog') = Len(dmLog) + 1
                    /\ dmLog'[Len(dmLog')].fromId = connectedUserId[c]
            /\ Typing(c, TRUE)
                 => Events(out', {"typing"}) # <<>>
            /\ \A userId \in UserIds \cup {NoId} :
                 Join(c, userId, Ann) \/ Join13(c, userId, Ann)
                   => connectedUserId'[c] = userId]_vars

\* C20: on join, the history frame is sent to the joining connection and to
\* no other, before the online_users and user_joined events that the same
\* join broadcasts to all connections
C20_HistoryFirst ==
  [][event'.type = "join"
       => /\ out'[1].type = "history"
          /\ out'[1].to = {event'.conn}
          /\ Histories(out') = {1}
          /\ \E i \in DOMAIN out' :
               /\ i > 1
               /\ out'[i].type = "online_users"
               /\ out'[i].to = OpenConns(connState)
          /\ \A i \in DOMAIN out' :
               out'[i].type \in {"online_users", "user_joined"}
                 => /\ i > 1
                    /\ out'[i].to = OpenConns(connState)]_vars

\* a join with the database connected: the history, not empty, went to the
\* joining connection alone, and user_joined to it and to another connection
C20_Witness ==
  /\ event.type = "join"
  /\ db
  /\ out[1].type = "history"
  /\ out[1].to = {event.conn}
  /\ out[1].messages # <<>>
  /\ \E i \in DOMAIN out :
       /\ out[i].type = "user_joined"
       /\ event.conn \in out[i].to
       /\ out[i].to # {event.conn}

-----------------------------------------------------------------------------
(* Properties of the broadcasts *)

\* C21: whenever a broadcast announcing a mutation fires, the mutation is
\* already recorded in the database or in its in-memory substitute, so that a
\* read issued right after the broadcast retrieves it; a failed write of an
\* HTTP mutation produces no broadcast
C21_RecordedBeforeBroadcast ==
  [][LET Holds(arr, x) == \E i \in DOMAIN arr : arr[i] = x
        Recorded(f) ==
          CASE f.type = "message" ->
                 /\ Holds(publicMessages', f.messages[1])
                 /\ db => Holds(dbChat', f.messages[1])
            [] f.type \in {"dm", "dm_sent"} ->
                 Holds(Thread(dmThreads', getDMKey(f.messages[1].fromId,
                                                   f.messages[1].toId)),
                       f.messages[1])
            [] f.type = "new_project" -> Exists(Projects', f.id)
            [] f.type = "vote_update" ->
                 /\ Exists(Projects', f.id)
                 /\ Counter(Projects', f.id) = f.n
            [] f.type = "project_deleted" -> ~Exists(Projects', f.id)
            [] OTHER -> TRUE
    IN  /\ \A i \in DOMAIN out' : Recorded(out'[i])
        /\ \A r \in pending : Rejected(r) => out' = <<>>]_vars

\* C22: a frame that is not validly encoded changes no shared state, sends no
\* frame to any connection, and leaves every connection in the state it was in
C22_InvalidFrameDropped ==
  [][\A c \in Conns, raw \in Raws :
       OnMessage(c, raw) /\ ~WellFormed(raw) =>
         /\ out' = <<>>
         /\ connState' = connState
         /\ UNCHANGED <<connectedUserId, userSockets, onlineUsers,
                        publicMessages, dmThreads, projVars, userVars>>]_vars

C22_Witness ==
  /\ event.type = "malformed"
  /\ connState[event.conn] = "open"
  /\ Truthy(connectedUserId[event.conn])
  /\ Len(publicMessages) > 0

\* C23: handling a frame that is invalidly encoded, that is no object carrying
\* a type, or that carries an unknown type never raises out of the handler
\* and never closes a connection, and changes no state
C23_FrameNeverCloses ==
  [][\A c \in Conns, raw \in Raws :
       OnMessage(c, raw) =>
         /\ connState' = connState
         /\ UNCHANGED <<connectedUserId, userSockets, onlineUsers,
                        publicMessages, dmThreads, projVars, userVars>>]_vars

\* C24: an admin-gated request (ban, project deletion, listing) whose key is
\* not exactly the shared secret is answered with access-denied, changes no
\* user record and no project, starts no write, and sends no banned or
\* project_deleted event
C24_WrongKeyDenied ==
  [][\A key \in AdminKeys \ {ADMIN_KEY} :
       (\/ \E email \in Emails : BanUser(email, key) \/ BanUser13(email, key)
        \/ \E id \in ProjIds : DeleteProject(id, key) \/ DeleteProject13(id, key)
        \/ AllUsers(key) \/ AllUsers13(key))
       => /\ resp'.status = 403
          /\ out' = <<>>
          /\ pending' = pending
          /\ UNCHANGED <<userVars, projVars>>]_vars

C24_Witness ==
  /\ resp.status = 403
  /\ resp.op = "ban"
  /\ resp.id \in DOMAIN Users
  /\ ~Users[resp.id].banned
  /\ \E c \in Conns : connState[c] = "open" /\ connectedUserId[c] = resp.id
  /\ Projects # <<>>

\* C25: every ban answered with success has set the ban flag on the stored
\* record of the given email; a ban that found no record is not answered with
\* success
C25_BanRecorded ==
  [][resp'.op = "ban" /\ resp'.status = 200 /\ resp'.ok = "true" =>
       /\ resp'.id \in DOMAIN Users'
       /\ Users'[resp'.id].banned]_vars

\* C26: the public buffer never holds more than 200 messages, and a message
\* appended to a full buffer evicts exactly the oldest one, also in the
\* revision that appends the stored history when the database has connected
C26_BufferBounded ==
  [][/\ Len(publicMessages') <= MessagesCap
     /\ \A c \in Conns :
          /\ MessageFrom(c, Hi)
          /\ Len(publicMessages) = MessagesCap
          => /\ Len(publicMessages') = MessagesCap
             /\ SubSeq(publicMessages', 1, MessagesCap - 1)
                  = Tail(publicMessages)]_vars

\* C27: no two messages in the public buffer carry the same id, and no two
\* messages of one DM thread do, also when both were handled within one tick
\* of the clock
C27_UniqueIds ==
  LET UniqueIds(arr) ==
        \A i, j \in DOMAIN arr : i # j => arr[i].id # arr[j].id
  IN  /\ UniqueIds(publicMessages)
      /\ \A key \in DOMAIN dmThreads : UniqueIds(dmThreads[key])

\* the frames of the step that carry an event sent with broadcastToAll
Broadcasts ==
  {i \in DOMAIN out' :
     out'[i].type \in {"message", "typing", "online_users", "user_joined",
                       "user_left", "vote_update", "new_project",
                       "project_deleted"}}

JoinedAs(c, userId, p) ==
  /\ connectedUserId[c] = userId
  /\ userId \in DOMAIN userSockets
  /\ c \in userSockets[userId]
  /\ userId \in DOMAIN onlineUsers
  /\ onlineUsers[userId].name = OrElse(p.name, "Anonyme")
  /\ onlineUsers[userId].plan = OrElse(p.plan, "free")
  /\ onlineUsers[userId].avatar = OrElse(p.avatar, "bust")

\* C29: processing again a join that the connection has already made, with the
\* same identity and profile, leaves the connection sets and the roster as
\* they were
C29_JoinIdempotent ==
  [][\A c \in Conns, userId \in UserIds \cup {NoId}, p \in Profiles :
       /\ JoinedAs(c, userId, p)
       /\ Join(c, userId, p) \/ Join13(c, userId, p)
       => /\ userSockets' = userSockets
          /\ onlineUsers' = onlineUsers
          /\ connectedUserId' = connectedUserId]_vars

C29_Witness ==
  /\ event.type = "join"
  /\ JoinedAs(event.conn, "u1", Ann)
  /\ Cardinality(userSockets["u1"]) = 2
  /\ NoId \in DOMAIN onlineUsers

\* C30: after a join for user U with profile P the presence entry of U is
\* exactly id U and the name, plan and avatar of P, the defaults standing for
\* the missing fields, whatever an earlier join had stored
C30_LastJoinWins ==
  [][\A c \in Conns, userId \in UserIds \cup {NoId}, p \in Profiles :
       Join(c, userId, p) \/ Join13(c, userId, p) =>
         /\ userId \in DOMAIN onlineUsers'
         /\ onlineUsers'[userId] =
              [id |-> userId,
               name |-> IF p.name = Undefined THEN "Anonyme" ELSE p.name,
               plan |-> IF p.plan = Undefined THEN "free" ELSE p.plan,
               avatar |-> IF p.avatar = Undefined THEN "bust"
                          ELSE p.avatar]]_vars

C30_Witness ==
  /\ event.type = "join"
  /\ connectedUserId[event.conn] = "u1"
  /\ onlineUsers["u1"].name = "Anonyme"
  /\ \E c \in userSockets["u1"] : c # event.conn

-----------------------------------------------------------------------------
(* Properties of unregistration, of the routing of events and of the keys  *)
(* of the direct-message threads                                           *)

\* C31: closing a connection removes it from every connection set that holds
\* it, so that afterwards no connection set holds a closed connection; the
\* presence entry of an owning user is removed and a user_left naming the
\* user is broadcast exactly when that user's set becomes empty, and a close
\* that leaves other connections in the set keeps the entry and broadcasts
\* neither user_left nor online_users
C31_CloseUnregisters ==
  [][\A c \in Conns :
       Close(c) \/ Close13(c) =>
         LET \* the users whose connection set holds c
             owners == {v \in DOMAIN userSockets : c \in userSockets[v]}
             left(v) == \E i \in DOMAIN out' :
                          out'[i].type = "user_left" /\ out'[i].id = v
         IN  /\ \A v \in DOMAIN userSockets' :
                  \A d \in userSockets'[v] : connState'[d] # "closed"
             /\ \A v \in owners :
                  IF userSockets[v] \ {c} = {}
                  THEN v \notin DOMAIN onlineUsers' /\ left(v)
                  ELSE /\ v \in DOMAIN onlineUsers'
                       /\ \A i \in DOMAIN out' :
                            out'[i].type \notin {"user_left", "online_users"}
     ]_vars

\* C32: a get_dm_history from a joined connection sends one dm_history frame,
\* holding every message exchanged between the requester and withId, to the
\* requesting connection alone, and changes no state
C32_HistoryToRequesterOnly ==
  [][\A c \in Conns, withId \in UserIds :
       Truthy(connectedUserId[c]) /\ GetDmHistory(c, withId) =>
         /\ Len(out') = 1
         /\ out'[1].type = "dm_history"
         /\ out'[1].to = {c}
         /\ out'[1].id = withId
         /\ out'[1].messages =
              SelectSeq(dmLog, LAMBDA m : {m.fromId, m.toId}
                                            = {connectedUserId[c], withId})
         /\ UNCHANGED <<connState, connectedUserId, userSockets, onlineUsers,
                        publicMessages, dmThreads, dbChat, dmLog, projVars,
                        inMemoryVotes, userVars>>]_vars

\* a non-empty history was sent to the requesting connection while another
\* connection of the requester and a connection of the other party were open
C32_Witness ==
  /\ event.type = "get_dm_history"
  /\ Len(out) = 1
  /\ out[1].type = "dm_history"
  /\ out[1].messages # <<>>
  /\ out[1].to = {event.conn}
  /\ \E d \in OpenConns(connState) \ {event.conn} :
       /\ connectedUserId[d] = connectedUserId[event.conn]
       /\ d \in userSockets[connectedUserId[d]]
  /\ \E d \in OpenConns(connState) :
       /\ connectedUserId[d] = event.toId
       /\ event.toId # connectedUserId[event.conn]

C34_SenderIsBoundIdentity ==
  [][/\ sent' # sent =>
          /\ publicMessages'[Len(publicMessages')].userId
               = connectedUserId[event'.conn]
          /\ SubSeq(publicMessages', 1, Len(publicMessages') - 1)
               = publicMessages
     /\ dmLog' # dmLog =>
          LET dmMsg == dmLog'[Len(dmLog')]
              thread == Thread(dmThreads', getDMKey(dmMsg.fromId, dmMsg.toId))
          IN  /\ dmMsg.fromId = connectedUserId[event'.conn]
              /\ thread[Len(thread)] = dmMsg
              /\ dmLog' = Append(dmLog, dmMsg)
     /\ \A c \in Conns :
          connectedUserId'[c] # connectedUserId[c] =>
            /\ event'.type = "join" /\ event'.conn = c
            /\ c \in userSockets'[connectedUserId'[c]]]_vars

\* a public message and a DM are stored under u1, the identity the sending
\* connection joined as last, after it had first joined without an identity,
\* the events naming u2 as their sender
C34_Witness ==
  /\ event.type = "dm"
  /\ connectedUserId[event.conn] = "u1"
  /\ NoId \in DOMAIN userSockets /\ event.conn \in userSockets[NoId]
  /\ Len(dmLog) = 1 /\ dmLog[1].fromId = "u1"
  /\ Len(publicMessages) = 1 /\ publicMessages[1].userId = "u1"
  /\ Forged.userId # "u1" /\ Forged.fromId # "u1"

\* C35: a dm, dm_sent, dm_typing or banned frame addressed to a user is
\* received only by connections whose bound identity is that user, whatever
\* joins, re-joins and closes came before
C35_AddressedToBoundOnly ==
  [][\A i \in DOMAIN out' :
       LET f == out'[i]
           \* the user the frame is addressed to
           addressee == CASE f.type = "dm" -> f.messages[1].toId
                          [] f.type = "dm_sent" -> f.messages[1].fromId
                          [] f.type = "dm_typing" -> event'.toId
                          [] OTHER -> f.id
       IN  f.type \in {"dm", "dm_sent", "dm_typing", "banned"} =>
             \A c \in f.to : connectedUserId'[c] = addressee]_vars

\* C36: the roster and the registry have the same keys, and no connection set
\* of the registry is empty
C36_RosterMatchesRegistry ==
  /\ DOMAIN onlineUsers = DOMAIN userSockets
  /\ \A u \in DOMAIN userSockets : userSockets[u] # {}

\* a close has removed the entries of u2 while u1, whose set holds a
\* connection and which another join had registered before, keeps both of its
\* entries
C36_Witness ==
  /\ event.type = "close"
  /\ connectedUserId[event.conn] = "u2"
  /\ "u2" \notin DOMAIN userSockets /\ "u2" \notin DOMAIN onlineUsers
  /\ "u1" \in DOMAIN userSockets /\ "u1" \in DOMAIN onlineUsers
  /\ \E c \in userSockets["u1"] : connState[c] = "open"

\* C37: two different unordered pairs of identities never have the same
\* thread key, identities holding ':' included, and the thread of a pair
\* holds only the DMs exchanged between the two users of the pair
C37_ThreadPerPair ==
  /\ \A a \in Names, b \in Names, c \in Names, d \in Names :
       getDMKey(a, b) = getDMKey(c, d) => {a, b} = {c, d}
  /\ \A a \in Names, b \in Names :
       LET thread == Thread(dmThreads, getDMKey(a, b))
       IN  \A i \in DOMAIN thread :
             {thread[i].fromId, thread[i].toId} = {a, b}

\* C38: a stored user record whose ban flag is set stays stored with the flag
\* set, in memory and in the database, whatever registration of the same
\* email or other operation comes later
C38_BanSticks ==
  [][/\ \A e \in DOMAIN inMemoryUsers :
          inMemoryUsers[e].banned =>
            e \in DOMAIN inMemoryUsers' /\ inMemoryUsers'[e].banned
     /\ \A e \in DOMAIN dbUsers :
          dbUsers[e].banned => e \in DOMAIN dbUsers' /\ dbUsers'[e].banned]_vars

\* a registration under the email of a banned user, the second one under
\* that email, was answered with success and the record still has the flag
C38_Witness ==
  /\ ~db
  /\ resp.op = "register" /\ resp.status = 200
  /\ resp.id \in DOMAIN inMemoryUsers
  /\ inMemoryUsers[resp.id].banned
  /\ regHist[resp.id].n = 2
  /\ regHist[resp.id].last.banned = FALSE

\* C39: a project is stored by its creation with 0 votes and 0 views, and the
\* new_project frame announces it with 0 votes and 0 views, whatever votes
\* and views the creation request carries
C39_CreatedWithZeroCounters ==
  [][/\ Len(inMemoryProjects') > Len(inMemoryProjects) =>
          /\ inMemoryProjects'[1].votes = 0
          /\ inMemoryProjects'[1].views = 0
     /\ Len(dbProjects') > Len(dbProjects) =>
          /\ dbProjects'[Len(dbProjects')].votes = 0
          /\ dbProjects'[Len(dbProjects')].views = 0
     /\ \A i \in DOMAIN out' :
          out'[i].type = "new_project" =>
            /\ Len(out'[i].messages) = 1
            /\ out'[i].messages[1].id = out'[i].id
            /\ out'[i].messages[1].votes = 0
            /\ out'[i].messages[1].views = 0
            /\ resp'.op = "create" /\ resp'.status = 200
            /\ \E k \in DOMAIN Projects' : Projects'[k].id = out'[i].id]_vars

\* a creation whose request carried votes and views was answered with
\* success: the project is stored and was announced to the open connection
\* with both counters at 0
C39_Witness ==
  /\ resp.op = "create" /\ resp.status = 200
  /\ Len(out) = 1
  /\ out[1].type = "new_project"
  /\ out[1].to # {}
  /\ out[1].messages[1].votes = 0 /\ out[1].messages[1].views = 0
  /\ \E k \in DOMAIN Projects :
       /\ Projects[k].id = resp.id
       /\ Projects[k].votes = 0 /\ Projects[k].views = 0

====
